---- MODULE Spec2Model ----
(***************************************************************************)
(* Model of the lottery configuration panel (src/src/pages/home.vue) and   *)
(* of the main-process handlers behind it (src/src/main.ts).               *)
(*                                                                         *)
(* Raw form values are JavaScript values: undefined, a number (finite,     *)
(* NaN or Infinity) or a text.  Finite numbers are kept with a resolution  *)
(* of one half: [whole |-> w, half |-> h] stands for w + 1/2 when h holds  *)
(* and for w otherwise.  A text is a sequence of characters.               *)
(***************************************************************************)
EXTENDS Integers, Sequences, FiniteSets, TLC

VARIABLES
    field,        \* SpecField: the leaf validator under test and its raw input
    result,       \* SpecField: the parse result of that validator
    coerceAcceptsInfinity,  \* whether the build's z.number() accepts Infinity
    state,        \* the reactive form state (the configuration document)
    preview,      \* the computed yamlPreview of the form state
    formErrors,   \* form.errors: the issues of the last validation
    validated,    \* formErrors come from validating the present form state
    ops,          \* number of edits and group operations so far
    isExporting,  \* the isExporting ref of the page
    hasExporter,  \* window.configExporter is present (the preload exposed it)
    exports,      \* the invocations of handleExport, in order of their clicks
    highlightRequestSeq,  \* the sequence number of the latest highlight request
    highlightedYamlHtml,  \* the highlighted HTML on display
    highlights,   \* the highlight requests whose codeToHtml is pending
    exportCall,   \* main process: a call of handleConfigExport
    commandCall,  \* main process: a call of handleRunCommand
    clipboard,    \* the text on the system clipboard
    copyNotice    \* the toast of the last handleCopyYaml

fieldVars == <<field, result>>
docVars == <<state, preview, formErrors, validated, ops>>
exportVars == <<isExporting, hasExporter, exports>>
highlightVars == <<highlightRequestSeq, highlightedYamlHtml, highlights>>
mainVars == <<exportCall, commandCall>>
copyVars == <<clipboard, copyNotice>>

vars == <<field, result, coerceAcceptsInfinity, state, preview, formErrors,
          validated, ops, isExporting, hasExporter, exports,
          highlightRequestSeq, highlightedYamlHtml, highlights,
          exportCall, commandCall, clipboard, copyNotice>>

-----------------------------------------------------------------------------
(* Bounds of the model *)

MaxTextLen == 2
MaxMagnitude == 2
MaxDocOps == 1
MaxGroups == 3
MaxOps == 1
MaxExports == 2
MaxHighlights == 3
MaxChunks == 1
MaxGroupOps == 2

-----------------------------------------------------------------------------
(* JavaScript values *)

Undefined == [k |-> "undefined"]
NaN == [k |-> "nan"]
Infinity == [k |-> "inf"]
Num(w) == [k |-> "num", whole |-> w, half |-> FALSE]
NumHalf(w) == [k |-> "num", whole |-> w, half |-> TRUE]
Text(cs) == [k |-> "text", chars |-> cs]

IsNum(v) == v.k = "num"

\* Twice the magnitude of a finite number, an integer.
Twice(v) == 2 * v.whole + (IF v.half THEN 1 ELSE 0)

TextAlphabet == {" ", "1", "7", "x"}

Texts == {Text(cs) : cs \in UNION {[1..n -> TextAlphabet] : n \in 0..MaxTextLen}}

FiniteNumbers ==
    {[k |-> "num", whole |-> w, half |-> h] :
        w \in (-MaxMagnitude..MaxMagnitude) \cup {100, 101}, h \in BOOLEAN}

RawValues == {Undefined, NaN, Infinity} \cup FiniteNumbers \cup Texts

-----------------------------------------------------------------------------
(* Number(value): the coercion of z.coerce.number() *)

RECURSIVE TrimStart(_)
TrimStart(cs) ==
    IF cs # <<>> /\ Head(cs) = " " THEN TrimStart(Tail(cs)) ELSE cs

RECURSIVE TrimEnd(_)
TrimEnd(cs) ==
    IF cs # <<>> /\ cs[Len(cs)] = " "
    THEN TrimEnd(SubSeq(cs, 1, Len(cs) - 1))
    ELSE cs

Trim(cs) == TrimEnd(TrimStart(cs))

IsDigit(c) == c \in {"1", "7"}

DigitValue(c) == IF c = "1" THEN 1 ELSE 7

RECURSIVE DecimalValue(_)
DecimalValue(cs) ==
    IF cs = <<>> THEN 0
    ELSE 10 * DecimalValue(SubSeq(cs, 1, Len(cs) - 1)) + DigitValue(cs[Len(cs)])

\* Number(text): surrounding white space is dropped, the empty text is 0, a
\* digit string is its decimal value and anything else is NaN.
StringToNumber(cs) ==
    LET t == Trim(cs) IN
    IF t = <<>> THEN Num(0)
    ELSE IF \A i \in 1..Len(t) : IsDigit(t[i]) THEN Num(DecimalValue(t))
    ELSE NaN

ToNumber(v) ==
    CASE v.k = "undefined" -> NaN
      [] v.k = "text" -> StringToNumber(v.chars)
      [] OTHER -> v

-----------------------------------------------------------------------------
(* Predicates of the refinements *)

NumberIsFinite(v) == v.k = "num"

NumberIsInteger(v) == v.k = "num" /\ ~v.half

\* v >= min and v <= max for a number v that is not NaN.
AtLeast(v, min) == IF v.k = "inf" THEN TRUE ELSE Twice(v) >= 2 * min

AtMost(v, max) == IF v.k = "inf" THEN FALSE ELSE Twice(v) <= 2 * max

\* a <= b and a > b for two numbers that are not NaN.
LessOrEqual(a, b) ==
    CASE b.k = "inf" -> TRUE
      [] a.k = "inf" -> FALSE
      [] OTHER -> Twice(a) <= Twice(b)

GreaterThan(a, b) == ~LessOrEqual(a, b)

-----------------------------------------------------------------------------
(* Parse results of the schema library: a status, the parsed value and    *)
(* the issues, each a path and a message.                                  *)

Issue(path, message) == [path |-> path, message |-> message]

Ok(value) == [status |-> "valid", value |-> value, issues |-> <<>>]

Aborted(issues) == [status |-> "aborted", value |-> Undefined, issues |-> issues]

\* The message the library gives an input of the wrong type.
InvalidTypeMessage == <<"invalid_type", "expected number">>

\* z.coerce.number(): Number(input), refused as a type error when the
\* outcome is NaN (and, in builds that refuse it, when it is infinite).
coerceNumber(path, input) ==
    LET n == ToNumber(input) IN
    IF n.k = "nan" \/ (n.k = "inf" /\ ~coerceAcceptsInfinity)
    THEN Aborted(<<Issue(path, InvalidTypeMessage)>>)
    ELSE Ok(n)

\* Mutant of refine: the first failed refinement stops the chain.
refine_ShortCircuit(path, inner, passes, message) ==
    IF inner.status # "valid" THEN inner
    ELSE IF passes THEN inner
    ELSE [status |-> "dirty", value |-> inner.value,
          issues |-> Append(inner.issues, Issue(path, message))]

\* schema.refine(check, {message}): skipped when the inner parse aborted,
\* otherwise the check runs on the parsed value and a failure adds its
\* issue without aborting, so later refinements still run.
refine(path, inner, passes, message) ==
    IF inner.status = "aborted" THEN inner
    ELSE IF passes THEN inner
    ELSE [status |-> "dirty", value |-> inner.value,
          issues |-> Append(inner.issues, Issue(path, message))]

\* Mutant of preprocessEmptyToUndefined: the text is trimmed first.
preprocessEmptyToUndefined_Trimmed(v) ==
    IF v.k = "text" /\ Trim(v.chars) = <<>> THEN Undefined ELSE v

preprocessEmptyToUndefined(v) == IF v = Text(<<>>) THEN Undefined ELSE v

\* An optional bound of a numeric helper: <<>> when absent, <<b>> when set.
NoBound == <<>>

Bound(b) == <<b>>

HasBound(b) == b # NoBound

\* The messages of the numeric helpers.
MsgValidNumber(label) == <<label, "must be a valid number">>
MsgNotEmpty(label) == <<label, "must not be empty">>
MsgMin(label, min) == <<label, "must not be less than", ToString(min)>>
MsgMax(label, max) == <<label, "must not be greater than", ToString(max)>>
MsgInteger(label) == <<label, "must be an integer">>

\* One refinement of a numeric helper: its check and its message.
Check(kind, bound, message) == [kind |-> kind, bound |-> bound, message |-> message]

CheckPasses(check, v) ==
    CASE check.kind = "finite" -> NumberIsFinite(v)
      [] check.kind = "min" -> AtLeast(v, check.bound)
      [] check.kind = "max" -> AtMost(v, check.bound)
      [] check.kind = "integer" -> NumberIsInteger(v)

\* base.refine(c1).refine(c2)...: the refinements run in the order they
\* were attached.
RECURSIVE applyRefinements(_, _, _)
applyRefinements(path, inner, checks) ==
    IF checks = <<>> THEN inner
    ELSE applyRefinements(
             path,
             refine(path, inner, CheckPasses(Head(checks), inner.value),
                    Head(checks).message),
             Tail(checks))

optionalNumberChecks(cfg) ==
    <<Check("finite", 0, MsgValidNumber(cfg.label))>>
    \o (IF HasBound(cfg.min)
        THEN <<Check("min", cfg.min[1], MsgMin(cfg.label, cfg.min[1]))>>
        ELSE <<>>)
    \o (IF HasBound(cfg.max)
        THEN <<Check("max", cfg.max[1], MsgMax(cfg.label, cfg.max[1]))>>
        ELSE <<>>)
    \o (IF cfg.integer
        THEN <<Check("integer", 0, MsgInteger(cfg.label))>>
        ELSE <<>>)

optionalNumber(path, cfg, raw) ==
    LET input == preprocessEmptyToUndefined(raw) IN
    IF input = Undefined THEN Ok(Undefined)
    ELSE applyRefinements(path, coerceNumber(path, input),
                          optionalNumberChecks(cfg))

requiredNumberChecks(label, cfg) ==
    <<Check("finite", 0, MsgNotEmpty(label))>>
    \o (IF cfg.integer
        THEN <<Check("integer", 0, MsgInteger(label))>>
        ELSE <<>>)
    \o (IF HasBound(cfg.min)
        THEN <<Check("min", cfg.min[1], MsgMin(label, cfg.min[1]))>>
        ELSE <<>>)
    \o (IF HasBound(cfg.max)
        THEN <<Check("max", cfg.max[1], MsgMax(label, cfg.max[1]))>>
        ELSE <<>>)

requiredNumber(path, label, cfg, raw) ==
    applyRefinements(path, coerceNumber(path, preprocessEmptyToUndefined(raw)),
                     requiredNumberChecks(label, cfg))

-----------------------------------------------------------------------------
(* Range helpers *)

\* z.object({start, end}): both ends are parsed; the object aborts when an
\* end aborted and is dirty when an end is dirty; the issues of both ends
\* are kept.
parseRangeObject(startRes, endRes) ==
    [status |-> IF "aborted" \in {startRes.status, endRes.status} THEN "aborted"
                ELSE IF "dirty" \in {startRes.status, endRes.status} THEN "dirty"
                ELSE "valid",
     value |-> [start |-> startRes.value, end |-> endRes.value],
     issues |-> startRes.issues \o endRes.issues]

MsgOrder(label) == <<label, "minimum must not exceed maximum">>
MsgPairing(label) == <<label, "requires both minimum and maximum to be filled">>

MinLabel(label) == label \o " minimum"
MaxLabel(label) == label \o " maximum"

\* Mutant of requiredRange: the order check is strict.
requiredRange_Strict(path, label, min, range) ==
    LET cfg == [min |-> Bound(min), max |-> NoBound, integer |-> FALSE]
        obj == parseRangeObject(
                   requiredNumber(Append(path, "start"), MinLabel(label), cfg,
                                  range.start),
                   requiredNumber(Append(path, "end"), MaxLabel(label), cfg,
                                  range.end))
    IN  refine(path, obj,
               LessOrEqual(obj.value.start, obj.value.end)
                   /\ obj.value.start # obj.value.end,
               MsgOrder(label))

requiredRange(path, label, min, range) ==
    LET cfg == [min |-> Bound(min), max |-> NoBound, integer |-> FALSE]
        obj == parseRangeObject(
                   requiredNumber(Append(path, "start"), MinLabel(label), cfg,
                                  range.start),
                   requiredNumber(Append(path, "end"), MaxLabel(label), cfg,
                                  range.end))
    IN  refine(path, obj, LessOrEqual(obj.value.start, obj.value.end),
               MsgOrder(label))

\* Mutant of optionalRange: a range with one end missing passes.
optionalRange_NoPairing(path, label, min, range) ==
    LET obj == parseRangeObject(
                   optionalNumber(Append(path, "start"),
                                  [min |-> Bound(min), max |-> NoBound,
                                   integer |-> FALSE, label |-> MinLabel(label)],
                                  range.start),
                   optionalNumber(Append(path, "end"),
                                  [min |-> Bound(min), max |-> NoBound,
                                   integer |-> FALSE, label |-> MaxLabel(label)],
                                  range.end))
        v == obj.value
    IN  IF obj.status = "aborted" THEN obj
        ELSE IF v.start = Undefined \/ v.end = Undefined THEN obj
        ELSE refine(path, obj, ~GreaterThan(v.start, v.end), MsgOrder(label))

\* Mutant of optionalRange: only a missing maximum is a pairing error.
optionalRange_EndOnly(path, label, min, range) ==
    LET obj == parseRangeObject(
                   optionalNumber(Append(path, "start"),
                                  [min |-> Bound(min), max |-> NoBound,
                                   integer |-> FALSE, label |-> MinLabel(label)],
                                  range.start),
                   optionalNumber(Append(path, "end"),
                                  [min |-> Bound(min), max |-> NoBound,
                                   integer |-> FALSE, label |-> MaxLabel(label)],
                                  range.end))
        v == obj.value
    IN  IF obj.status = "aborted" THEN obj
        ELSE IF v.start = Undefined THEN obj
        ELSE IF v.end = Undefined
        THEN refine(path, obj, FALSE, MsgPairing(label))
        ELSE refine(path, obj, ~GreaterThan(v.start, v.end), MsgOrder(label))

optionalRange(path, label, min, range) ==
    LET obj == parseRangeObject(
                   optionalNumber(Append(path, "start"),
                                  [min |-> Bound(min), max |-> NoBound,
                                   integer |-> FALSE, label |-> MinLabel(label)],
                                  range.start),
                   optionalNumber(Append(path, "end"),
                                  [min |-> Bound(min), max |-> NoBound,
                                   integer |-> FALSE, label |-> MaxLabel(label)],
                                  range.end))
        v == obj.value
    IN  IF obj.status = "aborted" THEN obj
        ELSE IF v.start = Undefined /\ v.end = Undefined THEN obj
        ELSE IF v.start = Undefined \/ v.end = Undefined
        THEN refine(path, obj, FALSE, MsgPairing(label))
        ELSE refine(path, obj, ~GreaterThan(v.start, v.end), MsgOrder(label))

-----------------------------------------------------------------------------
(* The numeric helpers as the schema configures them *)

NumberCfg(label, min, max, integer) ==
    [label |-> label, min |-> min, max |-> max, integer |-> integer]

MaxViewersCfg == NumberCfg("Max viewers", Bound(0), NoBound, TRUE)
MinProbabilityCfg == NumberCfg("Min win probability (%)", Bound(0), Bound(100), TRUE)
SwitchThresholdCfg == NumberCfg("Switch threshold", Bound(0), NoBound, TRUE)
ThreadsCfg == NumberCfg("Threads", Bound(1), NoBound, TRUE)

GlobalCountdownLabel == "Global countdown range (s)"
GroupCountdownLabel == "Countdown range (s)"
PostStayLabel == "Stay duration range (s)"

-----------------------------------------------------------------------------
(* The form state (the configuration document) *)

makeRange(start, end) == [start |-> start, end |-> end]

createEmptyConditions ==
    [countdownRange |-> makeRange(Undefined, Undefined),
     maxViewers |-> Undefined,
     minProbability |-> Undefined]

createEmptyGroup ==
    [id |-> "",
     threads |-> Num(1),
     inherit |-> TRUE,
     lottery |-> [conditions |-> createEmptyConditions,
                  fanClub |-> "inherit",
                  switchThreshold |-> Undefined,
                  postStay |-> makeRange(Undefined, Undefined)]]

\* A URL is kept as its scheme prefix followed by the rest.
Url(scheme, rest) == <<scheme, rest>>

\* The objects a group record of the reactive state is made of.  A value of
\* the model has no identity, so the identity of each object of a group is
\* kept beside the groups, in state.objects: group j's lottery record, its
\* conditions record and its two range records each have an address, and two
\* groups share a record exactly when they hold the same address for it.
ObjectKinds == {"lottery", "conditions", "countdownRange", "postStay"}

\* The addresses of the n-th group built, each object literal being a new
\* object.
objectsOfLiteral(n) ==
    [lottery |-> 4 * n - 3, conditions |-> 4 * n - 2,
     countdownRange |-> 4 * n - 1, postStay |-> 4 * n]

\* The objects of a sequence of groups written as literals.
objectsOfLiterals(groups) == [j \in DOMAIN groups |-> objectsOfLiteral(j)]

InitialState ==
    [log |-> [disabled |-> FALSE, level |-> "INFO", type |-> "console"],
     lottery |->
        [conditions |-> [countdownRange |-> makeRange(Num(30), Num(180)),
                         maxViewers |-> Num(5000),
                         minProbability |-> Num(80)],
         fanClub |-> FALSE,
         switchThreshold |-> Undefined,
         postStay |-> makeRange(Num(5), Num(10))],
     bitBrowser |->
        [groups |->
            <<[id |-> "4028808b99196613019922a4e27064c2",
               threads |-> Num(2),
               inherit |-> TRUE,
               lottery |-> [conditions |-> createEmptyConditions,
                            fanClub |-> "inherit",
                            switchThreshold |-> Undefined,
                            postStay |-> makeRange(Undefined, Undefined)]],
              [id |-> "b123...",
               threads |-> Num(2),
               inherit |-> TRUE,
               lottery |-> [conditions |-> createEmptyConditions,
                            fanClub |-> "inherit",
                            switchThreshold |-> Num(800),
                            postStay |-> makeRange(Undefined, Undefined)]]>>],
     redis |-> [url |-> Url("redis://", "127.0.0.1:6379/0")],
     objects |-> objectsOfLiterals(<<1, 2>>)]

-----------------------------------------------------------------------------
(* The schema: whole-document validation *)

\* z.object(...) and z.array(...): every member is parsed, the issues of
\* all members are kept in order, and the whole aborts when a member
\* aborted.
RECURSIVE mergeIssues(_)
mergeIssues(results) ==
    IF results = <<>> THEN <<>>
    ELSE Head(results).issues \o mergeIssues(Tail(results))

\* Mutant of parseObject: parsing stops at the first member that aborted.
parseObject_FailFast(results) ==
    LET stop == IF \E i \in DOMAIN results : results[i].status = "aborted"
                THEN CHOOSE i \in DOMAIN results :
                        /\ results[i].status = "aborted"
                        /\ \A j \in 1..(i - 1) : results[j].status # "aborted"
                ELSE Len(results)
    IN  [status |-> IF \E i \in DOMAIN results : results[i].status = "aborted"
                    THEN "aborted"
                    ELSE IF \E i \in DOMAIN results : results[i].status = "dirty"
                    THEN "dirty"
                    ELSE "valid",
         value |-> Undefined,
         issues |-> mergeIssues(SubSeq(results, 1, stop))]

parseObject(results) ==
    [status |-> IF \E i \in DOMAIN results : results[i].status = "aborted"
                THEN "aborted"
                ELSE IF \E i \in DOMAIN results : results[i].status = "dirty"
                THEN "dirty"
                ELSE "valid",
     value |-> Undefined,
     issues |-> mergeIssues(results)]

\* z.boolean() and z.enum([...]).
parseBoolean(path, v) ==
    IF v \in BOOLEAN THEN Ok(v)
    ELSE Aborted(<<Issue(path, <<"invalid_type", "expected boolean">>)>>)

parseEnum(path, options, v) ==
    IF v \in options THEN Ok(v)
    ELSE Aborted(<<Issue(path, <<"invalid_value", "expected one of the options">>)>>)

MsgGroupIdEmpty == <<"Group ID", "must not be empty">>
MsgUrlEmpty == <<"Redis URL", "must not be empty">>
MsgUrlScheme == <<"Redis URL", "must start with redis://">>

\* z.string().min(1, message)
parseGroupId(path, id) ==
    IF id = "" THEN refine(path, Ok(id), FALSE, MsgGroupIdEmpty) ELSE Ok(id)

UrlIsEmpty(url) == url[1] = "" /\ url[2] = ""

\* z.string().min(1, ...).regex(/^redis:\/\//, ...)
parseUrl(path, url) ==
    refine(path,
           refine(path, Ok(url), ~UrlIsEmpty(url), MsgUrlEmpty),
           url[1] = "redis://", MsgUrlScheme)

parseLog(path, log) ==
    parseObject(<<parseBoolean(Append(path, "disabled"), log.disabled),
                  parseEnum(Append(path, "level"),
                            {"DEBUG", "INFO", "WARNING", "ERROR"}, log.level),
                  parseEnum(Append(path, "type"), {"console", "file"}, log.type)>>)

parseGlobalConditions(path, c) ==
    parseObject(<<requiredRange(Append(path, "countdownRange"),
                                GlobalCountdownLabel, 0, c.countdownRange),
                  requiredNumber(Append(path, "maxViewers"), MaxViewersCfg.label,
                                 MaxViewersCfg, c.maxViewers),
                  requiredNumber(Append(path, "minProbability"),
                                 MinProbabilityCfg.label, MinProbabilityCfg,
                                 c.minProbability)>>)

parseGlobalLottery(path, l) ==
    parseObject(<<parseGlobalConditions(Append(path, "conditions"), l.conditions),
                  parseBoolean(Append(path, "fanClub"), l.fanClub),
                  optionalNumber(Append(path, "switchThreshold"),
                                 SwitchThresholdCfg, l.switchThreshold),
                  requiredRange(Append(path, "postStay"), PostStayLabel, 0,
                                l.postStay)>>)

parseGroupConditions(path, c) ==
    parseObject(<<optionalRange(Append(path, "countdownRange"),
                                GroupCountdownLabel, 0, c.countdownRange),
                  optionalNumber(Append(path, "maxViewers"), MaxViewersCfg,
                                 c.maxViewers),
                  optionalNumber(Append(path, "minProbability"),
                                 MinProbabilityCfg, c.minProbability)>>)

parseGroupLottery(path, l) ==
    parseObject(<<parseGroupConditions(Append(path, "conditions"), l.conditions),
                  parseEnum(Append(path, "fanClub"), {"inherit", "true", "false"},
                            l.fanClub),
                  optionalNumber(Append(path, "switchThreshold"),
                                 SwitchThresholdCfg, l.switchThreshold),
                  optionalRange(Append(path, "postStay"), PostStayLabel, 0,
                                l.postStay)>>)

parseGroup(path, g) ==
    parseObject(<<parseGroupId(Append(path, "id"), g.id),
                  requiredNumber(Append(path, "threads"), ThreadsCfg.label,
                                 ThreadsCfg, g.threads),
                  parseBoolean(Append(path, "inherit"), g.inherit),
                  parseGroupLottery(Append(path, "lottery"), g.lottery)>>)

\* The path of the group at (1-based) position i: JavaScript counts from 0.
GroupPath(i) == <<"bitBrowser", "groups", ToString(i - 1)>>

parseGroups(groups) ==
    parseObject([i \in DOMAIN groups |-> parseGroup(GroupPath(i), groups[i])])

schema(doc) ==
    parseObject(<<parseLog(<<"log">>, doc.log),
                  parseGlobalLottery(<<"lottery">>, doc.lottery),
                  parseGroups(doc.bitBrowser.groups),
                  parseUrl(<<"redis", "url">>, doc.redis.url)>>)

-----------------------------------------------------------------------------
(* Derivation: the tree that is serialized.  An object holds its entries   *)
(* in insertion order; an array holds its items.                           *)

Entry(key, val) == [key |-> key, val |-> val]

Object(entries) == [k |-> "object", entries |-> entries]

Array(items) == [k |-> "array", items |-> items]

Keys(obj) == {obj.entries[i].key : i \in DOMAIN obj.entries}

HasKey(obj, key) == key \in Keys(obj)

Get(obj, key) ==
    obj.entries[CHOOSE i \in DOMAIN obj.entries : obj.entries[i].key = key].val

\* obj.key = val when the condition holds (a guarded assignment).
PutIf(condition, key, val) == IF condition THEN <<Entry(key, val)>> ELSE <<>>

toOptionalNumber(value) == IF value.k = "num" THEN value ELSE Undefined

\* Mutant of toOptionalRange: a range with a concrete start is emitted.
toOptionalRange_StartOnly(range) ==
    IF toOptionalNumber(range.start) = Undefined THEN Undefined
    ELSE Array(<<toOptionalNumber(range.start), toOptionalNumber(range.end)>>)

toOptionalRange(range) ==
    IF toOptionalNumber(range.start) = Undefined
       \/ toOptionalNumber(range.end) = Undefined
    THEN Undefined
    ELSE Array(<<toOptionalNumber(range.start), toOptionalNumber(range.end)>>)

\* The conditions object both builders fill, key by key.
buildConditions(c) ==
    Object(PutIf(toOptionalRange(c.countdownRange) # Undefined,
                 "countdown_range", toOptionalRange(c.countdownRange))
           \o PutIf(toOptionalNumber(c.maxViewers) # Undefined,
                    "max_viewers", toOptionalNumber(c.maxViewers))
           \o PutIf(toOptionalNumber(c.minProbability) # Undefined,
                    "min_probability", toOptionalNumber(c.minProbability)))

\* Mutant of buildGlobalLottery: conditions is assigned without the test on
\* its keys.
buildGlobalLottery_AlwaysConditions(lottery) ==
    Object(<<Entry("conditions", buildConditions(lottery.conditions)),
             Entry("fan_club", lottery.fanClub)>>
           \o PutIf(toOptionalNumber(lottery.switchThreshold) # Undefined,
                    "switch_threshold", toOptionalNumber(lottery.switchThreshold))
           \o PutIf(toOptionalRange(lottery.postStay) # Undefined,
                    "post_stay", toOptionalRange(lottery.postStay)))

buildGlobalLottery(lottery) ==
    Object(PutIf(Cardinality(Keys(buildConditions(lottery.conditions))) > 0,
                 "conditions", buildConditions(lottery.conditions))
           \o <<Entry("fan_club", lottery.fanClub)>>
           \o PutIf(toOptionalNumber(lottery.switchThreshold) # Undefined,
                    "switch_threshold", toOptionalNumber(lottery.switchThreshold))
           \o PutIf(toOptionalRange(lottery.postStay) # Undefined,
                    "post_stay", toOptionalRange(lottery.postStay)))

\* Mutant of groupOverrides: the selector "false" is treated as "inherit".
groupOverrides_FalseInherits(lottery) ==
    Object(PutIf(Cardinality(Keys(buildConditions(lottery.conditions))) > 0,
                 "conditions", buildConditions(lottery.conditions))
           \o PutIf(lottery.fanClub = "true", "fan_club", TRUE)
           \o PutIf(toOptionalNumber(lottery.switchThreshold) # Undefined,
                    "switch_threshold", toOptionalNumber(lottery.switchThreshold))
           \o PutIf(toOptionalRange(lottery.postStay) # Undefined,
                    "post_stay", toOptionalRange(lottery.postStay)))

\* The overrides object of buildGroupLottery before its emptiness test.
groupOverrides(lottery) ==
    Object(PutIf(Cardinality(Keys(buildConditions(lottery.conditions))) > 0,
                 "conditions", buildConditions(lottery.conditions))
           \o PutIf(lottery.fanClub # "inherit", "fan_club",
                    lottery.fanClub = "true")
           \o PutIf(toOptionalNumber(lottery.switchThreshold) # Undefined,
                    "switch_threshold", toOptionalNumber(lottery.switchThreshold))
           \o PutIf(toOptionalRange(lottery.postStay) # Undefined,
                    "post_stay", toOptionalRange(lottery.postStay)))

\* Mutant of buildGroupLottery: the emptiness test is missing.
buildGroupLottery_NoEmptinessTest(lottery) == groupOverrides(lottery)

buildGroupLottery(lottery) ==
    IF Cardinality(Keys(groupOverrides(lottery))) = 0 THEN Undefined
    ELSE groupOverrides(lottery)

\* Math.trunc
Trunc(v) == Num(IF v.half /\ v.whole < 0 THEN v.whole + 1 ELSE v.whole)

groupPayload(group) ==
    Object(<<Entry("id", group.id), Entry("inherit", group.inherit)>>
           \o PutIf(toOptionalNumber(group.threads) # Undefined,
                    "threads", Trunc(group.threads))
           \o PutIf(buildGroupLottery(group.lottery) # Undefined,
                    "lottery", buildGroupLottery(group.lottery)))

\* Mutant of sanitizedConfig: the group list is emitted even when empty.
sanitizedConfig_AlwaysGroups(doc) ==
    Object(<<Entry("log", Object(<<Entry("disabled", doc.log.disabled),
                                   Entry("level", doc.log.level),
                                   Entry("type", doc.log.type)>>)),
             Entry("lottery", buildGlobalLottery(doc.lottery)),
             Entry("bit_browser",
                   Object(<<Entry("groups",
                                  Array([i \in DOMAIN doc.bitBrowser.groups |->
                                           groupPayload(doc.bitBrowser.groups[i])]))>>)),
             Entry("redis", Object(<<Entry("url", doc.redis.url)>>))>>)

sanitizedConfig(doc) ==
    Object(<<Entry("log", Object(<<Entry("disabled", doc.log.disabled),
                                   Entry("level", doc.log.level),
                                   Entry("type", doc.log.type)>>)),
             Entry("lottery", buildGlobalLottery(doc.lottery))>>
           \o PutIf(Len(doc.bitBrowser.groups) > 0,
                    "bit_browser",
                    Object(<<Entry("groups",
                                   Array([i \in DOMAIN doc.bitBrowser.groups |->
                                            groupPayload(doc.bitBrowser.groups[i])]))>>))
           \o <<Entry("redis", Object(<<Entry("url", doc.redis.url)>>))>>)

\* stringify(sanitizedConfig.value, { indent: 2 }): the text is the
\* serialization of the tree.
yamlPreview(doc) == [yaml |-> sanitizedConfig(doc)]

-----------------------------------------------------------------------------
(* Highlighting of the preview *)

\* codeToHtml(code, SHIKI_YAML_OPTIONS): the HTML of a preview text, here
\* with the number of the request that asked for it.
codeToHtml(seq, code) == [by |-> seq, failed |-> FALSE, code |-> code]

\* The <pre> that reports a failed highlighting.
highlightFailure(seq, code) == [by |-> seq, failed |-> TRUE, code |-> code]

\* highlightedYamlHtml = ref("")
NoHtml == [by |-> 0, failed |-> FALSE, code |-> Undefined]

HighlightRequest(seq, code) == [seq |-> seq, code |-> code]

\* The watcher's callback up to its await: ++highlightRequestSeq and the
\* call of codeToHtml.
startHighlight(code) ==
    /\ highlightRequestSeq' = highlightRequestSeq + 1
    /\ highlights' = highlights \cup {HighlightRequest(highlightRequestSeq + 1, code)}
    /\ UNCHANGED highlightedYamlHtml

\* watch(yamlPreview, ..., { immediate: true }) at setup.
HighlightStarted(code) ==
    /\ highlightRequestSeq = 1
    /\ highlightedYamlHtml = NoHtml
    /\ highlights = {HighlightRequest(1, code)}

-----------------------------------------------------------------------------
(* Main process: calls at rest *)

Absent == <<>>
Present(v) == <<v>>

IdleExportCall ==
    [pc |-> "idle", payload |-> Undefined, dialogs |-> <<>>, chosen |-> Absent,
     attempts |-> <<>>, files |-> <<>>, result |-> Absent]

IdleCommandCall ==
    [pc |-> "idle", timer |-> "none", settled |-> FALSE, spawned |-> FALSE,
     killed |-> FALSE, closed |-> FALSE, errored |-> FALSE, exit |-> Absent,
     stdout |-> 0, stderr |-> 0, resolved |-> <<>>, result |-> Absent]

MainIdle == exportCall = IdleExportCall /\ commandCall = IdleCommandCall

\* Nothing was copied yet.
NothingCopied == clipboard = Undefined /\ copyNotice = [title |-> "", description |-> ""]

-----------------------------------------------------------------------------
(* SpecField: one helper applied to one raw input *)

Pending == [status |-> "pending", value |-> Undefined, issues |-> <<>>]

FieldPath == <<"field">>

NumberProbes ==
    {[validator |-> v, cfg |-> c, raw |-> r] :
        v \in {"requiredNumber"},
        c \in {MaxViewersCfg, MinProbabilityCfg, ThreadsCfg},
        r \in RawValues}
    \cup
    {[validator |-> v, cfg |-> c, raw |-> r] :
        v \in {"optionalNumber"},
        c \in {SwitchThresholdCfg, MinProbabilityCfg},
        r \in RawValues}

RangeProbes ==
    {[validator |-> v, cfg |-> c, raw |-> [start |-> s, end |-> e]] :
        v \in {"requiredRange", "optionalRange"},
        c \in {NumberCfg(GroupCountdownLabel, Bound(0), NoBound, FALSE)},
        s \in RawValues, e \in RawValues}

InitField ==
    /\ field \in NumberProbes \cup RangeProbes
    /\ result = Pending
    /\ coerceAcceptsInfinity \in BOOLEAN
    /\ state = InitialState
    /\ preview = yamlPreview(InitialState)
    /\ formErrors = <<>>
    /\ validated = FALSE
    /\ ops = 0
    /\ isExporting = FALSE
    /\ hasExporter = TRUE
    /\ exports = <<>>
    /\ HighlightStarted(preview)
    /\ MainIdle
    /\ NothingCopied

ValidateRequiredNumber ==
    /\ result = Pending
    /\ field.validator = "requiredNumber"
    /\ result' = requiredNumber(FieldPath, field.cfg.label, field.cfg, field.raw)
    /\ UNCHANGED <<field, coerceAcceptsInfinity, docVars, exportVars, highlightVars, mainVars, copyVars>>

ValidateOptionalNumber ==
    /\ result = Pending
    /\ field.validator = "optionalNumber"
    /\ result' = optionalNumber(FieldPath, field.cfg, field.raw)
    /\ UNCHANGED <<field, coerceAcceptsInfinity, docVars, exportVars, highlightVars, mainVars, copyVars>>

ValidateRequiredRange ==
    /\ result = Pending
    /\ field.validator = "requiredRange"
    /\ result' = requiredRange(FieldPath, field.cfg.label, field.cfg.min[1], field.raw)
    /\ UNCHANGED <<field, coerceAcceptsInfinity, docVars, exportVars, highlightVars, mainVars, copyVars>>

ValidateOptionalRange ==
    /\ result = Pending
    /\ field.validator = "optionalRange"
    /\ result' = optionalRange(FieldPath, field.cfg.label, field.cfg.min[1], field.raw)
    /\ UNCHANGED <<field, coerceAcceptsInfinity, docVars, exportVars, highlightVars, mainVars, copyVars>>

NextField ==
    \/ ValidateRequiredNumber
    \/ ValidateOptionalNumber
    \/ ValidateRequiredRange
    \/ ValidateOptionalRange

SpecField == InitField /\ [][NextField]_vars

-----------------------------------------------------------------------------
(* Edits of the form state (the v-model bindings) and group operations *)

LotteryNumberFields ==
    {"countdownRange.start", "countdownRange.end", "maxViewers",
     "minProbability", "switchThreshold", "postStay.start", "postStay.end"}

\* A numeric input of a lottery record (global or override) takes a value.
setLotteryNumber(lottery, name, v) ==
    CASE name = "countdownRange.start" ->
            [lottery EXCEPT !.conditions.countdownRange.start = v]
      [] name = "countdownRange.end" ->
            [lottery EXCEPT !.conditions.countdownRange.end = v]
      [] name = "maxViewers" -> [lottery EXCEPT !.conditions.maxViewers = v]
      [] name = "minProbability" -> [lottery EXCEPT !.conditions.minProbability = v]
      [] name = "switchThreshold" -> [lottery EXCEPT !.switchThreshold = v]
      [] name = "postStay.start" -> [lottery EXCEPT !.postStay.start = v]
      [] name = "postStay.end" -> [lottery EXCEPT !.postStay.end = v]

getLotteryNumber(lottery, name) ==
    CASE name = "countdownRange.start" -> lottery.conditions.countdownRange.start
      [] name = "countdownRange.end" -> lottery.conditions.countdownRange.end
      [] name = "maxViewers" -> lottery.conditions.maxViewers
      [] name = "minProbability" -> lottery.conditions.minProbability
      [] name = "switchThreshold" -> lottery.switchThreshold
      [] name = "postStay.start" -> lottery.postStay.start
      [] name = "postStay.end" -> lottery.postStay.end

Groups == state.bitBrowser.groups

\* The object a numeric input of a group's overrides writes into.
ownerOf(name) ==
    CASE name \in {"countdownRange.start", "countdownRange.end"} -> "countdownRange"
      [] name \in {"maxViewers", "minProbability"} -> "conditions"
      [] name = "switchThreshold" -> "lottery"
      [] name \in {"postStay.start", "postStay.end"} -> "postStay"

\* The groups through which the object of the given kind of group i is
\* reached: group i itself, and every group holding the same object.
holders(i, kind) ==
    {j \in DOMAIN Groups : state.objects[j][kind] = state.objects[i][kind]}

\* An assignment to a property of an object of group i, written[j] being
\* group j's lottery record with that property assigned: every group that
\* holds the object shows the new value.
writeGroupLottery(i, kind, written) ==
    [state EXCEPT !.bitBrowser.groups =
        [j \in DOMAIN @ |->
            IF j \in holders(i, kind)
            THEN [@[j] EXCEPT !.lottery = written[j]]
            ELSE @[j]]]

\* The addresses of the objects of a group built now: those of the first
\* block of addresses of which none is in use.
newObjects(objects) ==
    LET used == {objects[j][k] : j \in DOMAIN objects, k \in ObjectKinds}
        free(n) == \A k \in ObjectKinds : objectsOfLiteral(n)[k] \notin used
    IN  objectsOfLiteral(CHOOSE n \in 1..(2 * Len(objects) + 1) :
                            free(n) /\ \A m \in 1..(n - 1) : ~free(m))

\* Mutant of cloneObjects: the copy takes the original's two range records
\* instead of building its own.
cloneObjects_SharedRanges(objects, original) ==
    [newObjects(objects) EXCEPT !.countdownRange = original.countdownRange,
                                !.postStay = original.postStay]

\* The objects of cloneGroup(original): the lottery and conditions records
\* are object literals and both ranges come from makeRange, so none of them
\* is an object of the original.
cloneObjects(objects, original) == newObjects(objects)

\* A change of the reactive state: the computed preview follows it, its
\* watcher starts a highlight request when the preview text has changed, and
\* form.errors is left as the last validation set it.
ChangeState(doc) ==
    /\ state' = doc
    /\ preview' = yamlPreview(doc)
    /\ IF yamlPreview(doc) # preview
       THEN startHighlight(yamlPreview(doc))
       ELSE UNCHANGED highlightVars
    /\ validated' = FALSE
    /\ ops' = ops + 1
    /\ UNCHANGED formErrors

EditGlobalNumber(name, v) ==
    /\ ChangeState([state EXCEPT !.lottery = setLotteryNumber(@, name, v)])
    /\ UNCHANGED <<fieldVars, coerceAcceptsInfinity, exportVars, mainVars, copyVars>>

EditGlobalFanClub ==
    /\ ChangeState([state EXCEPT !.lottery.fanClub = ~@])
    /\ UNCHANGED <<fieldVars, coerceAcceptsInfinity, exportVars, mainVars, copyVars>>

EditLogDisabled ==
    /\ ChangeState([state EXCEPT !.log.disabled = ~@])
    /\ UNCHANGED <<fieldVars, coerceAcceptsInfinity, exportVars, mainVars, copyVars>>

EditRedisUrl(url) ==
    /\ ChangeState([state EXCEPT !.redis.url = url])
    /\ UNCHANGED <<fieldVars, coerceAcceptsInfinity, exportVars, mainVars, copyVars>>

EditGroupId(i, id) ==
    /\ i \in DOMAIN Groups
    /\ ChangeState([state EXCEPT !.bitBrowser.groups[i].id = id])
    /\ UNCHANGED <<fieldVars, coerceAcceptsInfinity, exportVars, mainVars, copyVars>>

EditGroupThreads(i, v) ==
    /\ i \in DOMAIN Groups
    /\ ChangeState([state EXCEPT !.bitBrowser.groups[i].threads = v])
    /\ UNCHANGED <<fieldVars, coerceAcceptsInfinity, exportVars, mainVars, copyVars>>

EditGroupInherit(i) ==
    /\ i \in DOMAIN Groups
    /\ ChangeState([state EXCEPT !.bitBrowser.groups[i].inherit = ~@])
    /\ UNCHANGED <<fieldVars, coerceAcceptsInfinity, exportVars, mainVars, copyVars>>

EditGroupNumber(i, name, v) ==
    /\ i \in DOMAIN Groups
    /\ ChangeState(writeGroupLottery(i, ownerOf(name),
            [j \in DOMAIN Groups |-> setLotteryNumber(Groups[j].lottery, name, v)]))
    /\ UNCHANGED <<fieldVars, coerceAcceptsInfinity, exportVars, mainVars, copyVars>>

EditGroupFanClub(i, selector) ==
    /\ i \in DOMAIN Groups
    /\ ChangeState(writeGroupLottery(i, "lottery",
            [j \in DOMAIN Groups |-> [Groups[j].lottery EXCEPT !.fanClub = selector]]))
    /\ UNCHANGED <<fieldVars, coerceAcceptsInfinity, exportVars, mainVars, copyVars>>

addGroup ==
    /\ Len(Groups) < MaxGroups
    /\ ChangeState([state EXCEPT !.bitBrowser.groups = Append(@, createEmptyGroup),
                                 !.objects = Append(@, newObjects(@))])
    /\ UNCHANGED <<fieldVars, coerceAcceptsInfinity, exportVars, mainVars, copyVars>>

\* groups.splice(index, 1)
removeGroup(i) ==
    /\ i \in DOMAIN Groups
    /\ ChangeState([state EXCEPT !.bitBrowser.groups =
                                    SubSeq(@, 1, i - 1) \o SubSeq(@, i + 1, Len(@)),
                                 !.objects =
                                    SubSeq(@, 1, i - 1) \o SubSeq(@, i + 1, Len(@))])
    /\ UNCHANGED <<fieldVars, coerceAcceptsInfinity, exportVars, mainVars, copyVars>>

cloneGroup(group) ==
    [id |-> "",
     threads |-> group.threads,
     inherit |-> group.inherit,
     lottery |->
        [conditions |->
            [countdownRange |-> makeRange(group.lottery.conditions.countdownRange.start,
                                          group.lottery.conditions.countdownRange.end),
             maxViewers |-> group.lottery.conditions.maxViewers,
             minProbability |-> group.lottery.conditions.minProbability],
         fanClub |-> group.lottery.fanClub,
         switchThreshold |-> group.lottery.switchThreshold,
         postStay |-> makeRange(group.lottery.postStay.start,
                                group.lottery.postStay.end)]]

\* groups.splice(index + 1, 0, cloneGroup(original))
duplicateGroup(i) ==
    /\ i \in DOMAIN Groups
    /\ Len(Groups) < MaxGroups
    /\ ChangeState([state EXCEPT !.bitBrowser.groups =
                                    SubSeq(@, 1, i) \o <<cloneGroup(@[i])>>
                                        \o SubSeq(@, i + 1, Len(@)),
                                 !.objects =
                                    SubSeq(@, 1, i) \o <<cloneObjects(@, @[i])>>
                                        \o SubSeq(@, i + 1, Len(@))])
    /\ UNCHANGED <<fieldVars, coerceAcceptsInfinity, exportVars, mainVars, copyVars>>

\* form.validate(): the whole form state is parsed against the schema and
\* form.errors is replaced by the issues found.
FormValidate ==
    /\ ~validated
    /\ formErrors' = schema(state).issues
    /\ validated' = TRUE
    /\ UNCHANGED <<state, preview, ops, fieldVars, coerceAcceptsInfinity, exportVars,
                 highlightVars, mainVars, copyVars>>

-----------------------------------------------------------------------------
(* SpecDoc: the document under edits, validation and derivation *)

\* The values typed into numeric inputs: cleared, -1.5, 7 and the text "7".
DocValues == {Text(<<>>), NumHalf(-2), Num(7), Text(<<"7">>)}

DocIds == {"", "g1"}

DocUrls == {Url("", ""), Url("http://", "x"), Url("redis://", "x")}

\* The global lottery section with every numeric input cleared.
ClearedLottery ==
    [conditions |-> [countdownRange |-> makeRange(Text(<<>>), Text(<<>>)),
                     maxViewers |-> Text(<<>>),
                     minProbability |-> Text(<<>>)],
     fanClub |-> FALSE,
     switchThreshold |-> Text(<<>>),
     postStay |-> makeRange(Text(<<>>), Text(<<>>))]

\* A group with every override filled in.
FilledGroup ==
    [id |-> "g1",
     threads |-> Num(3),
     inherit |-> FALSE,
     lottery |-> [conditions |-> [countdownRange |-> makeRange(Num(10), Num(20)),
                                  maxViewers |-> Num(100),
                                  minProbability |-> Num(50)],
                  fanClub |-> "true",
                  switchThreshold |-> Num(5),
                  postStay |-> makeRange(Num(1), Num(2))]]

\* Documents the form can hold, from which the edits start.
BaseDocuments ==
    {[InitialState EXCEPT !.lottery = l, !.bitBrowser.groups = g,
                          !.objects = objectsOfLiterals(g)] :
        l \in {InitialState.lottery, ClearedLottery},
        g \in {InitialState.bitBrowser.groups, <<>>, <<FilledGroup>>}}

InitDoc ==
    /\ field = [validator |-> "none"]
    /\ result = Pending
    /\ coerceAcceptsInfinity = FALSE
    /\ state \in BaseDocuments
    /\ preview = yamlPreview(state)
    /\ formErrors = <<>>
    /\ validated = FALSE
    /\ ops = 0
    /\ isExporting = FALSE
    /\ hasExporter = TRUE
    /\ exports = <<>>
    /\ HighlightStarted(preview)
    /\ MainIdle
    /\ NothingCopied

\* An edit is possible while the budget lasts and the form has not been
\* validated yet: up to MaxDocOps edits, then one validation of the form.
DocStep == ops < MaxDocOps /\ ~validated

NextDoc ==
    \/ \E name \in LotteryNumberFields, v \in DocValues :
            DocStep /\ EditGlobalNumber(name, v)
    \/ DocStep /\ EditGlobalFanClub
    \/ DocStep /\ EditLogDisabled
    \/ \E url \in DocUrls : DocStep /\ EditRedisUrl(url)
    \/ \E i \in 1..MaxGroups, id \in DocIds : DocStep /\ EditGroupId(i, id)
    \/ \E i \in 1..MaxGroups, v \in DocValues : DocStep /\ EditGroupThreads(i, v)
    \/ \E i \in 1..MaxGroups : DocStep /\ EditGroupInherit(i)
    \/ \E i \in 1..MaxGroups, name \in LotteryNumberFields, v \in DocValues :
            DocStep /\ EditGroupNumber(i, name, v)
    \/ \E i \in 1..MaxGroups, selector \in {"inherit", "true", "false"} :
            DocStep /\ EditGroupFanClub(i, selector)
    \/ DocStep /\ addGroup
    \/ \E i \in 1..MaxGroups : DocStep /\ removeGroup(i)
    \/ \E i \in 1..MaxGroups : DocStep /\ duplicateGroup(i)
    \/ FormValidate

SpecDoc == InitDoc /\ [][NextDoc]_vars

-----------------------------------------------------------------------------
(* The page: edits, group operations and the export button *)

Notice(title, description) == [title |-> title, description |-> description]
NoNotice == [title |-> "", description |-> ""]

\* The toasts of handleExport (titles and descriptions in translation).
NoticeFixErrors == Notice("Export failed", "fix the validation errors before exporting")
NoticeUnsupported == Notice("Export failed", "file export is not supported here")
NoticeSaveError == Notice("Export failed", "result.error")
NoticeSaveThrew == Notice("Export failed", "String(error)")
NoticeSaved == Notice("Export succeeded", "result.filePath")

\* One invocation of handleExport: where it stands, the toast it added, and
\* the content it handed to configExporter.exportYaml (if it called it).
Invocation(pc, notice, called, content) ==
    [pc |-> pc, notice |-> notice, called |-> called, content |-> content]

hasErrors == Len(formErrors) > 0

\* Mutant of exportDecision: the error list is not consulted.
exportDecision_IgnoreErrors(errorsArr, exporter) ==
    IF ~exporter THEN "unsupported" ELSE "save"

\* What handleExport does once form.validate() has settled.
exportDecision(errorsArr, exporter) ==
    IF Len(errorsArr) > 0 THEN "invalid"
    ELSE IF ~exporter THEN "unsupported"
    ELSE "save"

\* A click on the export button, enabled unless hasErrors || isExporting:
\* handleExport passes its isExporting test and awaits form.validate().
ExportClick ==
    /\ Len(exports) < MaxExports
    /\ ~hasErrors
    /\ ~isExporting
    /\ exports' = Append(exports, Invocation("validating", NoNotice, FALSE, Undefined))
    /\ UNCHANGED <<isExporting, hasExporter, docVars, fieldVars, coerceAcceptsInfinity,
                 highlightVars, mainVars, copyVars>>

\* form.validate() of the k-th invocation settles: form.errors holds the
\* issues of the present form state, and handleExport goes on from its await
\* to the toast and return, or to isExporting = true and the exportYaml call.
ValidateResolve(k) ==
    /\ k \in DOMAIN exports
    /\ exports[k].pc = "validating"
    /\ formErrors' = schema(state).issues
    /\ validated' = TRUE
    /\ LET decision == exportDecision(formErrors', hasExporter)
       IN  CASE decision = "invalid" ->
                  /\ exports' = [exports EXCEPT
                        ![k] = Invocation("done", NoticeFixErrors, FALSE, Undefined)]
                  /\ UNCHANGED isExporting
             [] decision = "unsupported" ->
                  /\ exports' = [exports EXCEPT
                        ![k] = Invocation("done", NoticeUnsupported, FALSE, Undefined)]
                  /\ UNCHANGED isExporting
             [] decision = "save" ->
                  /\ exports' = [exports EXCEPT
                        ![k] = Invocation("saving", NoNotice, TRUE, preview)]
                  /\ isExporting' = TRUE
    /\ UNCHANGED <<state, preview, ops, hasExporter, fieldVars, coerceAcceptsInfinity,
                 highlightVars, mainVars, copyVars>>

SaveOutcomes == {"error", "canceled", "saved", "threw"}

\* Mutant of exportingAfter: the flag is cleared on the paths through the
\* try block only, not when exportYaml threw.
exportingAfter_NoFinally(outcome) == outcome = "threw"

\* finally { isExporting.value = false }: whatever the outcome.
exportingAfter(outcome) == FALSE

\* exportYaml of the k-th invocation settles; the finally block clears
\* isExporting.
SaveResolve(k, outcome) ==
    /\ k \in DOMAIN exports
    /\ exports[k].pc = "saving"
    /\ exports' = [exports EXCEPT
          ![k].pc = "done",
          ![k].notice = CASE outcome = "error" -> NoticeSaveError
                          [] outcome = "canceled" -> NoNotice
                          [] outcome = "saved" -> NoticeSaved
                          [] outcome = "threw" -> NoticeSaveThrew]
    /\ isExporting' = exportingAfter(outcome)
    /\ UNCHANGED <<hasExporter, docVars, fieldVars, coerceAcceptsInfinity,
                 highlightVars, mainVars, copyVars>>

PageValues == {Text(<<>>), Num(7)}
PageIds == {"", "a"}

Init ==
    /\ field = [validator |-> "none"]
    /\ result = Pending
    /\ coerceAcceptsInfinity = FALSE
    /\ state = InitialState
    /\ preview = yamlPreview(InitialState)
    /\ formErrors = <<>>
    /\ validated = FALSE
    /\ ops = 0
    /\ isExporting = FALSE
    /\ hasExporter \in BOOLEAN
    /\ exports = <<>>
    /\ HighlightStarted(preview)
    /\ MainIdle
    /\ NothingCopied

PageStep == ops < MaxOps

Next ==
    \/ \E v \in PageValues : PageStep /\ EditGlobalNumber("maxViewers", v)
    \/ \E i \in 1..MaxGroups, id \in PageIds : PageStep /\ EditGroupId(i, id)
    \/ PageStep /\ addGroup
    \/ \E i \in 1..MaxGroups : PageStep /\ removeGroup(i)
    \/ \E i \in 1..MaxGroups : PageStep /\ duplicateGroup(i)
    \/ ExportClick
    \/ \E k \in 1..MaxExports : ValidateResolve(k)
    \/ \E k \in 1..MaxExports, outcome \in SaveOutcomes : SaveResolve(k, outcome)

Spec == Init /\ [][Next]_vars

\* The page under group operations and exports.
NextRecovery ==
    \/ PageStep /\ addGroup
    \/ \E i \in 1..MaxGroups : PageStep /\ removeGroup(i)
    \/ \E i \in 1..MaxGroups : PageStep /\ duplicateGroup(i)
    \/ ExportClick
    \/ \E k \in 1..MaxExports : ValidateResolve(k)
    \/ \E k \in 1..MaxExports, outcome \in SaveOutcomes : SaveResolve(k, outcome)

\* The page when every call of exportYaml settles: a pending save is
\* eventually resolved.
SpecRecovery ==
    /\ Init
    /\ [][NextRecovery]_vars
    /\ WF_vars(\E k \in 1..MaxExports, outcome \in SaveOutcomes :
                    SaveResolve(k, outcome))

-----------------------------------------------------------------------------
(* The page: the copy button *)

NoticeCopied == Notice("YAML copied", "")
NoticeCopyFailed == Notice("Copy failed", "String(error)")

\* The copy button is enabled unless hasErrors.
copyEnabled(errors) == Len(errors) = 0

\* A click on the copy button: handleCopyYaml hands yamlPreview to
\* navigator.clipboard.writeText, which writes it or rejects, and adds the
\* toast.
CopyClick(written) ==
    /\ copyEnabled(formErrors)
    /\ clipboard' = IF written THEN preview ELSE clipboard
    /\ copyNotice' = IF written THEN NoticeCopied ELSE NoticeCopyFailed
    /\ UNCHANGED <<docVars, exportVars, highlightVars, mainVars, fieldVars,
                   coerceAcceptsInfinity>>

\* The page under edits, group operations, validation passes and copies.
NextCopy ==
    \/ \E v \in PageValues : PageStep /\ EditGlobalNumber("maxViewers", v)
    \/ \E i \in 1..MaxGroups, id \in PageIds : PageStep /\ EditGroupId(i, id)
    \/ PageStep /\ addGroup
    \/ \E i \in 1..MaxGroups : PageStep /\ removeGroup(i)
    \/ \E i \in 1..MaxGroups : PageStep /\ duplicateGroup(i)
    \/ FormValidate
    \/ \E written \in BOOLEAN : CopyClick(written)

SpecCopy == Init /\ [][NextCopy]_vars

-----------------------------------------------------------------------------
(* SpecGroups: the group list under group operations and override edits *)

\* One numeric input of each object of a group's overrides.
GroupEditFields ==
    {"countdownRange.start", "maxViewers", "switchThreshold", "postStay.end"}

GroupEditValues == {Num(7)}

GroupEditSelectors == {"true"}

GroupStep == ops < MaxGroupOps

NextGroups ==
    \/ GroupStep /\ addGroup
    \/ \E i \in 1..MaxGroups : GroupStep /\ removeGroup(i)
    \/ \E i \in 1..MaxGroups : GroupStep /\ duplicateGroup(i)
    \/ \E i \in 1..MaxGroups, name \in GroupEditFields, v \in GroupEditValues :
          GroupStep /\ EditGroupNumber(i, name, v)
    \/ \E i \in 1..MaxGroups, selector \in GroupEditSelectors :
          GroupStep /\ EditGroupFanClub(i, selector)

SpecGroups == InitDoc /\ [][NextGroups]_vars

-----------------------------------------------------------------------------
(* The page: highlight requests and their completions *)

\* Mutant of applyHighlight: the sequence number is not compared.
applyHighlight_Always(seq, out) == out

\* if (seq === highlightRequestSeq) highlightedYamlHtml.value = out
applyHighlight(seq, out) ==
    IF seq = highlightRequestSeq THEN out ELSE highlightedYamlHtml

\* codeToHtml of a pending request resolves.
HighlightResolve(request) ==
    /\ request \in highlights
    /\ highlightedYamlHtml' =
          applyHighlight(request.seq, codeToHtml(request.seq, request.code))
    /\ highlights' = highlights \ {request}
    /\ UNCHANGED <<highlightRequestSeq, docVars, exportVars, fieldVars,
                   coerceAcceptsInfinity, mainVars, copyVars>>

\* codeToHtml of a pending request rejects.
HighlightReject(request) ==
    /\ request \in highlights
    /\ highlightedYamlHtml' =
          applyHighlight(request.seq, highlightFailure(request.seq, request.code))
    /\ highlights' = highlights \ {request}
    /\ UNCHANGED <<highlightRequestSeq, docVars, exportVars, fieldVars,
                   coerceAcceptsInfinity, mainVars, copyVars>>

InitHighlight ==
    /\ field = [validator |-> "none"]
    /\ result = Pending
    /\ coerceAcceptsInfinity = FALSE
    /\ state = InitialState
    /\ preview = yamlPreview(InitialState)
    /\ formErrors = <<>>
    /\ validated = FALSE
    /\ ops = 0
    /\ isExporting = FALSE
    /\ hasExporter = TRUE
    /\ exports = <<>>
    /\ HighlightStarted(preview)
    /\ MainIdle
    /\ NothingCopied

\* The preview changes at most MaxHighlights - 1 times after setup.
HighlightStep == ops < MaxHighlights - 1

NextHighlight ==
    \/ HighlightStep /\ EditLogDisabled
    \/ HighlightStep /\ EditGlobalFanClub
    \/ HighlightStep /\ addGroup
    \/ \E i \in 1..MaxGroups : HighlightStep /\ removeGroup(i)
    \/ \E id \in PageIds : HighlightStep /\ EditGroupId(1, id)
    \/ \E request \in highlights : HighlightResolve(request)
    \/ \E request \in highlights : HighlightReject(request)

SpecHighlight == InitHighlight /\ [][NextHighlight]_vars

-----------------------------------------------------------------------------
(* Main process: handleConfigExport *)

\* A ConfigExportResult; filePath and error are optional.
ExportResult(canceled, filePath, error) ==
    [canceled |-> canceled, filePath |-> filePath, error |-> error]

ExportPayload(content, defaultPath) ==
    [k |-> "payload", content |-> content, defaultPath |-> defaultPath]

\* Payloads a caller can send: none, one whose content is not a string, and
\* well-formed ones with and without a default path.
ExportPayloads ==
    {Undefined,
     ExportPayload(Undefined, Undefined),
     ExportPayload(Num(7), Text(<<"x">>)),
     ExportPayload(Text(<<>>), Undefined),
     ExportPayload(Text(<<"x">>), Text(<<" ">>)),
     ExportPayload(Text(<<"x">>), Text(<<" ", "x">>))}

\* !payload || typeof payload.content !== "string"
contentMissing(payload) == payload = Undefined \/ payload.content.k # "text"

DefaultFileName == Text(<<"lottery-config.yaml">>)

\* payload.defaultPath?.trim() || "lottery-config.yaml"
defaultPathOf(payload) ==
    IF payload.defaultPath = Undefined THEN DefaultFileName
    ELSE IF Trim(payload.defaultPath.chars) = <<>> THEN DefaultFileName
    ELSE Text(Trim(payload.defaultPath.chars))

\* What showSaveDialog can resolve to, or that it threw.
DialogOutcomes ==
    {[threw |-> b, canceled |-> c, filePath |-> f] :
        b \in BOOLEAN, c \in BOOLEAN, f \in {"", "/out.yaml"}}

\* Mutant of dialogCanceled: only the canceled flag is consulted.
dialogCanceled_FlagOnly(outcome) == outcome.canceled

\* result.canceled || !result.filePath
dialogCanceled(outcome) == outcome.canceled \/ outcome.filePath = ""

\* ipcMain.handle(exportChannel, ...): a request arrives; without a text
\* content it is answered at once, otherwise the save dialog opens.
ConfigExportInvoke(payload, hasWindow) ==
    /\ exportCall.pc \in {"idle", "returned"}
    /\ exportCall' =
          IF contentMissing(payload)
          THEN [IdleExportCall EXCEPT
                  !.pc = "returned", !.payload = payload,
                  !.result = Present(ExportResult(FALSE, Absent,
                                                  Present("content missing")))]
          ELSE [IdleExportCall EXCEPT
                  !.pc = "dialog", !.payload = payload,
                  !.dialogs = <<[defaultPath |-> defaultPathOf(payload),
                                 parent |-> hasWindow]>>]
    /\ UNCHANGED <<commandCall, copyVars, docVars, exportVars, highlightVars, fieldVars,
                   coerceAcceptsInfinity>>

\* showSaveDialog settles: the handler returns the error or the canceled
\* result, or goes on to writeFile.
DialogResolve(outcome) ==
    /\ exportCall.pc = "dialog"
    /\ exportCall' =
          IF outcome.threw
          THEN [exportCall EXCEPT
                  !.pc = "returned",
                  !.result = Present(ExportResult(FALSE, Absent,
                                                  Present("dialog error")))]
          ELSE IF dialogCanceled(outcome)
          THEN [exportCall EXCEPT
                  !.pc = "returned", !.chosen = Present(outcome),
                  !.result = Present(ExportResult(TRUE, Absent, Absent))]
          ELSE [exportCall EXCEPT
                  !.pc = "writing", !.chosen = Present(outcome),
                  !.attempts = <<[path |-> outcome.filePath,
                                  content |-> exportCall.payload.content,
                                  encoding |-> "utf-8"]>>]
    /\ UNCHANGED <<commandCall, copyVars, docVars, exportVars, highlightVars, fieldVars,
                   coerceAcceptsInfinity>>

\* writeFile settles: the file holds the content and the path is returned,
\* or the error is.
WriteResolve(ok) ==
    /\ exportCall.pc = "writing"
    /\ exportCall' =
          IF ok
          THEN [exportCall EXCEPT
                  !.pc = "returned",
                  !.files = exportCall.attempts,
                  !.result = Present(ExportResult(FALSE,
                                 Present(exportCall.attempts[1].path), Absent))]
          ELSE [exportCall EXCEPT
                  !.pc = "returned",
                  !.result = Present(ExportResult(FALSE, Absent,
                                                  Present("write error")))]
    /\ UNCHANGED <<commandCall, copyVars, docVars, exportVars, highlightVars, fieldVars,
                   coerceAcceptsInfinity>>

-----------------------------------------------------------------------------
(* Main process: handleRunCommand *)

\* A CommandRunResult; code and signal can be null, error is optional.
CommandResult(code, signal, stdout, stderr, error) ==
    [code |-> code, signal |-> signal, stdout |-> stdout, stderr |-> stderr,
     error |-> error]

CommandPayload(command, timeoutMs) ==
    [k |-> "payload", command |-> command, timeoutMs |-> timeoutMs]

CommandPayloads ==
    {Undefined,
     CommandPayload(Undefined, Num(5000)),
     CommandPayload(Text(<<"x">>), Undefined),
     CommandPayload(Text(<<"x">>), Num(0)),
     CommandPayload(Text(<<"x">>), Num(5000))}

\* !payload || typeof payload.command !== "string"
commandMissing(payload) == payload = Undefined \/ payload.command.k # "text"

\* payload.timeoutMs ? setTimeout(...) : null
hasTimeout(payload) ==
    /\ payload.timeoutMs.k = "num"
    /\ payload.timeoutMs # Num(0)

\* How a child can end: exit codes and signals of the close event.
ExitCodes == {Absent, Present(0), Present(1)}
ExitSignals == {Absent, Present("SIGTERM")}

\* Mutant of alreadySettled: the close and error handlers do not test the
\* flag.
alreadySettled_Ignored(call) == FALSE

\* if (settled) return
alreadySettled(call) == call.settled

\* resolve(result): the promise takes the first result it is given.
resolveWith(call, r) ==
    [call EXCEPT
        !.settled = TRUE,
        !.resolved = Append(@, r),
        !.result = IF @ = Absent THEN Present(r) ELSE @,
        !.pc = "returned"]

\* if (timeout) clearTimeout(timeout)
clearTimer(call) ==
    [call EXCEPT !.timer = IF @ = "armed" THEN "cleared" ELSE @]

\* ipcMain.handle(runCommandChannel, ...): a request arrives.  Without a
\* command, or when spawn throws, the error result is returned at once;
\* otherwise the child runs and the timer is armed if a timeout was given.
RunInvoke(payload, spawnThrows) ==
    /\ commandCall.pc = "idle"
    /\ commandCall' =
          IF commandMissing(payload)
          THEN [commandCall EXCEPT
                  !.pc = "returned",
                  !.result = Present(CommandResult(Absent, Absent, 0, 0,
                                                   Present("missing command")))]
          ELSE IF spawnThrows
          THEN [commandCall EXCEPT
                  !.pc = "returned",
                  !.result = Present(CommandResult(Absent, Absent, 0, 0,
                                                   Present("error.message")))]
          ELSE [commandCall EXCEPT
                  !.pc = "running", !.spawned = TRUE,
                  !.timer = IF hasTimeout(payload) THEN "armed" ELSE "none"]
    /\ UNCHANGED <<exportCall, copyVars, docVars, exportVars, highlightVars, fieldVars,
                   coerceAcceptsInfinity>>

\* child.stdout / child.stderr "data": the chunk is appended.
ChildData(stream) ==
    /\ commandCall.spawned
    /\ ~commandCall.closed
    /\ commandCall[stream] < MaxChunks
    /\ commandCall' = [commandCall EXCEPT ![stream] = @ + 1]
    /\ UNCHANGED <<exportCall, copyVars, docVars, exportVars, highlightVars, fieldVars,
                   coerceAcceptsInfinity>>

\* Mutant of timeoutResult: the output collected so far is left out.
timeoutResult_NoOutput(call) ==
    CommandResult(Absent, Absent, 0, 0, Present("timeout"))

\* { code: null, signal: null, stdout, stderr, error: "执行超时" }
timeoutResult(call) ==
    CommandResult(Absent, Absent, call.stdout, call.stderr, Present("timeout"))

\* The timer fires: unless settled, the child is killed and the timeout
\* result resolves the promise.
TimeoutFires ==
    /\ commandCall.timer = "armed"
    /\ commandCall' =
          IF commandCall.settled
          THEN [commandCall EXCEPT !.timer = "fired"]
          ELSE [resolveWith(commandCall, timeoutResult(commandCall))
                  EXCEPT !.timer = "fired", !.killed = TRUE]
    /\ UNCHANGED <<exportCall, copyVars, docVars, exportVars, highlightVars, fieldVars,
                   coerceAcceptsInfinity>>

\* child "close": unless settled, the timer is cleared and the exit code and
\* signal resolve the promise.
ChildClose(code, signal) ==
    /\ commandCall.spawned
    /\ ~commandCall.closed
    /\ commandCall' =
          IF alreadySettled(commandCall)
          THEN [commandCall EXCEPT
                  !.closed = TRUE, !.exit = Present([code |-> code, signal |-> signal])]
          ELSE [resolveWith(clearTimer(commandCall),
                            CommandResult(code, signal, commandCall.stdout,
                                          commandCall.stderr, Absent))
                  EXCEPT !.closed = TRUE,
                         !.exit = Present([code |-> code, signal |-> signal])]
    /\ UNCHANGED <<exportCall, copyVars, docVars, exportVars, highlightVars, fieldVars,
                   coerceAcceptsInfinity>>

\* child "error": unless settled, the timer is cleared and the error
\* resolves the promise.
ChildError ==
    /\ commandCall.spawned
    /\ ~commandCall.closed
    /\ ~commandCall.errored
    /\ commandCall' =
          IF alreadySettled(commandCall)
          THEN [commandCall EXCEPT !.errored = TRUE]
          ELSE [resolveWith(clearTimer(commandCall),
                            CommandResult(Absent, Absent, commandCall.stdout,
                                          commandCall.stderr,
                                          Present("err.message")))
                  EXCEPT !.errored = TRUE]
    /\ UNCHANGED <<exportCall, copyVars, docVars, exportVars, highlightVars, fieldVars,
                   coerceAcceptsInfinity>>

InitMain ==
    /\ field = [validator |-> "none"]
    /\ result = Pending
    /\ coerceAcceptsInfinity = FALSE
    /\ state = InitialState
    /\ preview = yamlPreview(InitialState)
    /\ formErrors = <<>>
    /\ validated = FALSE
    /\ ops = 0
    /\ isExporting = FALSE
    /\ hasExporter = TRUE
    /\ exports = <<>>
    /\ HighlightStarted(preview)
    /\ MainIdle
    /\ NothingCopied

NextMain ==
    \/ \E payload \in ExportPayloads, hasWindow \in BOOLEAN :
            ConfigExportInvoke(payload, hasWindow)
    \/ \E outcome \in DialogOutcomes : DialogResolve(outcome)
    \/ \E ok \in BOOLEAN : WriteResolve(ok)
    \/ \E payload \in CommandPayloads, spawnThrows \in BOOLEAN :
            RunInvoke(payload, spawnThrows)
    \/ \E stream \in {"stdout", "stderr"} : ChildData(stream)
    \/ TimeoutFires
    \/ \E code \in ExitCodes, signal \in ExitSignals : ChildClose(code, signal)
    \/ ChildError

SpecMain == InitMain /\ [][NextMain]_vars

-----------------------------------------------------------------------------
(* The specification's reading of a raw value (spec 4.1), used to state    *)
(* the claims: Empty, Invalid or Valid with a magnitude.                   *)

Interpret(raw) ==
    CASE raw.k = "undefined" -> "Empty"
      [] raw.k = "num" -> "Valid"
      [] raw.k = "text" ->
            IF Trim(raw.chars) = <<>> THEN "Empty"
            ELSE IF \A i \in 1..Len(Trim(raw.chars)) : IsDigit(Trim(raw.chars)[i])
            THEN "Valid"
            ELSE "Invalid"
      [] OTHER -> "Invalid"

\* Twice the magnitude of a raw value that reads as Valid.
TwiceMagnitude(raw) ==
    IF raw.k = "num" THEN Twice(raw) ELSE 2 * DecimalValue(Trim(raw.chars))

\* Unset, or the text of length zero.
ZeroLength(raw) == raw = Undefined \/ raw = Text(<<>>)

\* A text of white space only, at least one character long.
WhitespaceOnly(raw) ==
    raw.k = "text" /\ raw.chars # <<>> /\ Trim(raw.chars) = <<>>

Validated == result # Pending

IsNumberField == field.validator \in {"requiredNumber", "optionalNumber"}
IsRangeField == field.validator \in {"requiredRange", "optionalRange"}

IssueSet(res) == {res.issues[i] : i \in DOMAIN res.issues}
Messages(res) == {res.issues[i].message : i \in DOMAIN res.issues}
IssuesAt(res, path) == {i \in IssueSet(res) : i.path = path}

PairingIssue == Issue(FieldPath, MsgPairing(field.cfg.label))
OrderIssue == Issue(FieldPath, MsgOrder(field.cfg.label))

-----------------------------------------------------------------------------
(* C3 *)

\* C3 as stated: a range of either flavour with one end Empty and the other
\* a valid number reports the pairing error.
C3_PartialRangeReportsPairing ==
    (Validated /\ IsRangeField
       /\ {Interpret(field.raw.start), Interpret(field.raw.end)} = {"Empty", "Valid"})
    => PairingIssue \in IssueSet(result)

\* C3 (amended): an optional range with one end empty (unset or of length
\* zero) and the other a valid number reports the pairing error; a required
\* range never reports the pairing error: each empty end is reported by an
\* error of that end's own field.
C3_PairingOnOptionalRangeOnly ==
    (Validated /\ IsRangeField) =>
        /\ (field.validator = "optionalRange"
              /\ ((ZeroLength(field.raw.start) /\ Interpret(field.raw.end) = "Valid")
                  \/ (ZeroLength(field.raw.end) /\ Interpret(field.raw.start) = "Valid")))
            => PairingIssue \in IssueSet(result)
        /\ field.validator = "requiredRange" =>
              /\ PairingIssue \notin IssueSet(result)
              /\ ZeroLength(field.raw.start)
                    => IssuesAt(result, Append(FieldPath, "start")) # {}
              /\ ZeroLength(field.raw.end)
                    => IssuesAt(result, Append(FieldPath, "end")) # {}

C3_Witness ==
    /\ Validated
    /\ field.validator = "optionalRange"
    /\ field.raw = [start |-> Num(1), end |-> Text(<<>>)]
    /\ PairingIssue \in IssueSet(result)

-----------------------------------------------------------------------------
(* C4 *)

ValidInBounds(raw) == Interpret(raw) = "Valid" /\ TwiceMagnitude(raw) >= 0

SwapEnds(range) == [start |-> range.end, end |-> range.start]

\* C4: an optional range with one end empty and the other a valid in-bounds
\* number reports exactly the pairing error, and the same errors whichever
\* end is the filled one; with both ends empty it reports no error.
C4_OptionalPairingSymmetric ==
    (Validated /\ field.validator = "optionalRange") =>
        /\ (ZeroLength(field.raw.start) /\ ZeroLength(field.raw.end))
            => result.issues = <<>>
        /\ ((ZeroLength(field.raw.start) /\ ValidInBounds(field.raw.end))
              \/ (ZeroLength(field.raw.end) /\ ValidInBounds(field.raw.start)))
            => /\ IssueSet(result) = {PairingIssue}
               /\ IssueSet(result) =
                      IssueSet(optionalRange(FieldPath, field.cfg.label,
                                             field.cfg.min[1], SwapEnds(field.raw)))

C4_Witness ==
    /\ Validated
    /\ field.validator = "optionalRange"
    /\ field.raw = [start |-> Undefined, end |-> Num(2)]
    /\ IssueSet(result) = {PairingIssue}

-----------------------------------------------------------------------------
(* C5 *)

\* C5: a range of either flavour whose ends are both valid numbers reports
\* the order error exactly when start > end.
C5_OrderErrorIffStartExceedsEnd ==
    (Validated /\ IsRangeField
       /\ Interpret(field.raw.start) = "Valid" /\ Interpret(field.raw.end) = "Valid")
    => (OrderIssue \in IssueSet(result)
          <=> TwiceMagnitude(field.raw.start) > TwiceMagnitude(field.raw.end))

C5_Witness ==
    /\ Validated
    /\ field.validator = "requiredRange"
    /\ field.raw = [start |-> Num(2), end |-> Num(1)]
    /\ OrderIssue \in IssueSet(result)

-----------------------------------------------------------------------------
(* C6 *)

\* C6 as stated: a value that is Empty after trimming is rejected by a
\* required field and is absent, with no error, on an optional field.
C6_TrimmedEmptyIsEmpty ==
    (Validated /\ IsNumberField /\ Interpret(field.raw) = "Empty") =>
        IF field.validator = "requiredNumber"
        THEN result.issues # <<>>
        ELSE result = Ok(Undefined)

\* C6 (amended): no trimming precedes the emptiness test.  Only an unset
\* value or the text of length zero is Empty: rejected with an error by a
\* required field; absent, with no error, on an optional field.  A text of
\* white space only is the number 0 and is validated as that number.
C6_OnlyZeroLengthIsEmpty ==
    (Validated /\ IsNumberField) =>
        /\ ZeroLength(field.raw) =>
              IF field.validator = "requiredNumber"
              THEN result.status = "aborted" /\ result.issues # <<>>
              ELSE result = Ok(Undefined)
        /\ WhitespaceOnly(field.raw) =>
              /\ result.value = Num(0)
              /\ result =
                    IF field.validator = "requiredNumber"
                    THEN requiredNumber(FieldPath, field.cfg.label, field.cfg, Num(0))
                    ELSE optionalNumber(FieldPath, field.cfg, Num(0))

C6_Witness ==
    /\ Validated
    /\ field.validator = "requiredNumber"
    /\ field.cfg = MaxViewersCfg
    /\ field.raw = Text(<<" ">>)
    /\ result = Ok(Num(0))

-----------------------------------------------------------------------------
(* C7 *)

\* C7: an Invalid value is reported as "<label> must be a valid number" by
\* required and optional fields alike, and an Empty value is reported as
\* "<label> must not be empty" by a required field.
C7_InvalidAndEmptyMessages ==
    (Validated /\ IsNumberField) =>
        /\ Interpret(field.raw) = "Invalid"
              => MsgValidNumber(field.cfg.label) \in Messages(result)
        /\ (field.validator = "requiredNumber" /\ ZeroLength(field.raw))
              => MsgNotEmpty(field.cfg.label) \in Messages(result)

-----------------------------------------------------------------------------
(* C8 *)

\* The rules a number of the given doubled magnitude violates.
ViolatedRules(cfg, twice) ==
    (IF HasBound(cfg.min) /\ twice < 2 * cfg.min[1]
     THEN {MsgMin(cfg.label, cfg.min[1])} ELSE {})
    \cup
    (IF HasBound(cfg.max) /\ twice > 2 * cfg.max[1]
     THEN {MsgMax(cfg.label, cfg.max[1])} ELSE {})
    \cup
    (IF cfg.integer /\ twice % 2 # 0
     THEN {MsgInteger(cfg.label)} ELSE {})

\* C8: for a numeric field holding a valid number the reported errors are
\* exactly the violated rules, each once, with no stop after the first.
C8_AllViolationsReported ==
    (Validated /\ IsNumberField /\ Interpret(field.raw) = "Valid") =>
        /\ Messages(result) = ViolatedRules(field.cfg, TwiceMagnitude(field.raw))
        /\ Len(result.issues) = Cardinality(Messages(result))

C8_Witness ==
    /\ Validated
    /\ field.validator = "optionalNumber"
    /\ field.cfg = SwitchThresholdCfg
    /\ field.raw = NumHalf(-2)
    /\ Messages(result) = {MsgMin("Switch threshold", 0),
                            MsgInteger("Switch threshold")}

-----------------------------------------------------------------------------
(* C9 *)

Leaf(path, kind, cfg, raw) == [path |-> path, kind |-> kind, cfg |-> cfg, raw |-> raw]

RangeEndCfg(label) == NumberCfg(label, Bound(0), NoBound, FALSE)

\* The numeric inputs of a lottery record with the helper each one is
\* declared with: all required in the global section except the switch
\* threshold, all optional in a group override.
LotteryLeaves(path, l, kind, countdownLabel) ==
    {Leaf(path \o <<"conditions", "countdownRange", "start">>, kind,
          RangeEndCfg(MinLabel(countdownLabel)), l.conditions.countdownRange.start),
     Leaf(path \o <<"conditions", "countdownRange", "end">>, kind,
          RangeEndCfg(MaxLabel(countdownLabel)), l.conditions.countdownRange.end),
     Leaf(path \o <<"conditions", "maxViewers">>, kind, MaxViewersCfg,
          l.conditions.maxViewers),
     Leaf(path \o <<"conditions", "minProbability">>, kind, MinProbabilityCfg,
          l.conditions.minProbability),
     Leaf(path \o <<"switchThreshold">>, "optional", SwitchThresholdCfg,
          l.switchThreshold),
     Leaf(path \o <<"postStay", "start">>, kind,
          RangeEndCfg(MinLabel(PostStayLabel)), l.postStay.start),
     Leaf(path \o <<"postStay", "end">>, kind,
          RangeEndCfg(MaxLabel(PostStayLabel)), l.postStay.end)}

GroupLeaves(i, g) ==
    LotteryLeaves(Append(GroupPath(i), "lottery"), g.lottery, "optional",
                  GroupCountdownLabel)
    \cup {Leaf(Append(GroupPath(i), "threads"), "required", ThreadsCfg, g.threads)}

Leaves(doc) ==
    LotteryLeaves(<<"lottery">>, doc.lottery, "required", GlobalCountdownLabel)
    \cup UNION {GroupLeaves(i, doc.bitBrowser.groups[i]) :
                    i \in DOMAIN doc.bitBrowser.groups}

\* The issues of one numeric input validated on its own.
LeafIssues(leaf) ==
    IssueSet(IF leaf.kind = "required"
             THEN requiredNumber(leaf.path, leaf.cfg.label, leaf.cfg, leaf.raw)
             ELSE optionalNumber(leaf.path, leaf.cfg, leaf.raw))

RangeOf(path, kind, label, range) ==
    [path |-> path, kind |-> kind, label |-> label, range |-> range]

LotteryRanges(path, l, kind, countdownLabel) ==
    {RangeOf(path \o <<"conditions", "countdownRange">>, kind, countdownLabel,
             l.conditions.countdownRange),
     RangeOf(path \o <<"postStay">>, kind, PostStayLabel, l.postStay)}

Ranges(doc) ==
    LotteryRanges(<<"lottery">>, doc.lottery, "required", GlobalCountdownLabel)
    \cup UNION {LotteryRanges(Append(GroupPath(i), "lottery"),
                              doc.bitBrowser.groups[i].lottery, "optional",
                              GroupCountdownLabel) :
                    i \in DOMAIN doc.bitBrowser.groups}

\* The issues of one range validated on its own: those of its two ends and
\* its pairing or order issue.
RangeIssues(r) ==
    IssueSet(IF r.kind = "required"
             THEN requiredRange(r.path, r.label, 0, r.range)
             ELSE optionalRange(r.path, r.label, 0, r.range))

IsUnder(path, prefix) ==
    /\ Len(path) >= Len(prefix)
    /\ SubSeq(path, 1, Len(prefix)) = prefix

\* The issues of the identifiers and of the connection URL on their own.
TextIssues(doc) ==
    {Issue(Append(GroupPath(i), "id"), MsgGroupIdEmpty) :
        i \in {j \in DOMAIN doc.bitBrowser.groups : doc.bitBrowser.groups[j].id = ""}}
    \cup (IF UrlIsEmpty(doc.redis.url)
          THEN {Issue(<<"redis", "url">>, MsgUrlEmpty)} ELSE {})
    \cup (IF doc.redis.url[1] # "redis://"
          THEN {Issue(<<"redis", "url">>, MsgUrlScheme)} ELSE {})

FormIssues == {formErrors[i] : i \in DOMAIN formErrors}

\* C9: after a validation of the whole form the error list holds, under its
\* own path, every issue that each numeric input, each range, each group
\* identifier and the URL yields when validated on its own, whatever the
\* other fields and groups hold.
C9_ValidationIsTotal ==
    validated =>
        /\ \A leaf \in Leaves(state) :
              {e \in FormIssues : e.path = leaf.path} = LeafIssues(leaf)
        /\ \A r \in Ranges(state) :
              {e \in FormIssues : IsUnder(e.path, r.path)} = RangeIssues(r)
        /\ TextIssues(state) \subseteq FormIssues

C9_Witness ==
    /\ validated
    /\ ops = 1
    /\ Len(Groups) = 2
    /\ Groups[2].threads = NumHalf(-2)
    /\ state.lottery = ClearedLottery
    /\ Issue(<<"lottery", "conditions", "maxViewers">>, InvalidTypeMessage)
          \in FormIssues
    /\ Issue(<<"lottery", "postStay", "end">>, InvalidTypeMessage) \in FormIssues
    /\ Issue(<<"bitBrowser", "groups", "1", "threads">>, MsgMin("Threads", 1))
          \in FormIssues
    /\ Issue(<<"bitBrowser", "groups", "1", "threads">>, MsgInteger("Threads"))
          \in FormIssues

-----------------------------------------------------------------------------
(* C10 *)

\* The raw value is a concrete (finite) number.
Concrete(raw) == raw.k = "num"

AnyOverride(l) ==
    \/ Concrete(l.conditions.countdownRange.start)
          /\ Concrete(l.conditions.countdownRange.end)
    \/ Concrete(l.conditions.maxViewers)
    \/ Concrete(l.conditions.minProbability)
    \/ l.fanClub # "inherit"
    \/ Concrete(l.switchThreshold)
    \/ Concrete(l.postStay.start) /\ Concrete(l.postStay.end)

\* The derived entry of the group at position i.
GroupEntry(i) == Get(Get(preview.yaml, "bit_browser"), "groups").items[i]

\* C10: a group's derived entry has the key lottery exactly when one of its
\* overrides holds a concrete value; with none, and a concrete thread
\* count, the entry is exactly {id, inherit, threads}; an override never
\* carries an empty conditions object.
C10_GroupLotteryOmittedWhenEmpty ==
    \A i \in DOMAIN Groups :
        /\ HasKey(GroupEntry(i), "lottery") <=> AnyOverride(Groups[i].lottery)
        /\ (~AnyOverride(Groups[i].lottery) /\ Concrete(Groups[i].threads))
              => GroupEntry(i) =
                    Object(<<Entry("id", Groups[i].id),
                             Entry("inherit", Groups[i].inherit),
                             Entry("threads", Trunc(Groups[i].threads))>>)
        /\ (HasKey(GroupEntry(i), "lottery")
               /\ HasKey(Get(GroupEntry(i), "lottery"), "conditions"))
              => Keys(Get(Get(GroupEntry(i), "lottery"), "conditions")) # {}

C10_Witness ==
    /\ ops = 1
    /\ Len(Groups) = 2
    /\ Groups[2].id = "b123..."
    /\ Groups[2].lottery.switchThreshold = Text(<<>>)
    /\ GroupEntry(2) = Object(<<Entry("id", "b123..."), Entry("inherit", TRUE),
                                 Entry("threads", Num(2))>>)

-----------------------------------------------------------------------------
(* C1 *)

\* C1: whenever the validation step of an invocation of handleExport leaves
\* a non-empty error list, that invocation ends there with the failure
\* notice, without calling exportYaml and without raising isExporting, and
\* a finished invocation never calls it later.
C1_ExportGating ==
    [][\A k \in DOMAIN exports :
          /\ (exports[k].pc = "validating" /\ exports'[k].pc # "validating"
                /\ formErrors' # <<>>)
               => /\ exports'[k] = Invocation("done", NoticeFixErrors, FALSE, Undefined)
                  /\ isExporting' = isExporting
          /\ exports[k].pc = "done" => exports'[k] = exports[k]]_vars

C1_Witness ==
    /\ ops >= 1
    /\ exports # <<>>
    /\ exports[1] = Invocation("done", NoticeFixErrors, FALSE, Undefined)
    /\ formErrors # <<>>
    /\ hasExporter

-----------------------------------------------------------------------------
(* C2 *)

InFlight == {k \in DOMAIN exports : exports[k].pc = "saving"}

\* C2: at most one call of configExporter.exportYaml is in flight at any
\* time.
C2_AtMostOneSaveInFlight == Cardinality(InFlight) <= 1

-----------------------------------------------------------------------------
(* C11 *)

ConcreteRange(range) == Concrete(range.start) /\ Concrete(range.end)

\* No numeric override of a group's lottery record holds a concrete value.
NoNumericOverride(l) ==
    /\ ~ConcreteRange(l.conditions.countdownRange)
    /\ ~Concrete(l.conditions.maxViewers)
    /\ ~Concrete(l.conditions.minProbability)
    /\ ~Concrete(l.switchThreshold)
    /\ ~ConcreteRange(l.postStay)

HasFanClub(entry) ==
    HasKey(entry, "lottery") /\ HasKey(Get(entry, "lottery"), "fan_club")

\* C11: a group's derived override has the key fan_club exactly when the
\* selector is not "inherit"; its value is the boolean TRUE for "true" and
\* FALSE for "false"; with selector "true" and no other override the derived
\* lottery object is exactly {fan_club: true}.
C11_GroupFanClubTriState ==
    \A i \in DOMAIN Groups :
        /\ HasFanClub(GroupEntry(i)) <=> Groups[i].lottery.fanClub # "inherit"
        /\ HasFanClub(GroupEntry(i))
             => Get(Get(GroupEntry(i), "lottery"), "fan_club")
                   = (Groups[i].lottery.fanClub = "true")
        /\ (Groups[i].lottery.fanClub = "true" /\ NoNumericOverride(Groups[i].lottery))
             => Get(GroupEntry(i), "lottery") = Object(<<Entry("fan_club", TRUE)>>)

C11_Witness ==
    /\ ops = 1
    /\ Len(Groups) = 2
    /\ Groups[1].lottery.fanClub = "true"
    /\ NoNumericOverride(Groups[1].lottery)
    /\ Get(GroupEntry(1), "lottery") = Object(<<Entry("fan_club", TRUE)>>)

-----------------------------------------------------------------------------
(* C12 *)

\* The derived global lottery object.
GlobalLottery == Get(preview.yaml, "lottery")

AnyGlobalCondition(c) ==
    \/ ConcreteRange(c.countdownRange)
    \/ Concrete(c.maxViewers)
    \/ Concrete(c.minProbability)

\* C12: the derived global lottery object has the key conditions exactly
\* when the countdown range (both ends), the maximum of viewers or the
\* minimum probability holds a concrete value, and a conditions object is
\* never empty.
C12_GlobalConditionsPresence ==
    /\ HasKey(GlobalLottery, "conditions")
         <=> AnyGlobalCondition(state.lottery.conditions)
    /\ HasKey(GlobalLottery, "conditions")
         => Keys(Get(GlobalLottery, "conditions")) # {}

C12_Witness ==
    /\ ops = 1
    /\ state.lottery.conditions = ClearedLottery.conditions
    /\ GlobalLottery = Object(<<Entry("fan_club", FALSE),
                                Entry("switch_threshold", Num(7))>>)

-----------------------------------------------------------------------------
(* C13 *)

KeyOrder(obj) == [i \in DOMAIN obj.entries |-> obj.entries[i].key]

\* C13: the keys of the derived tree are log, lottery, bit_browser, redis in
\* this order, bit_browser being there exactly when the document has a
\* group; log holds disabled, level and type; the tree is a function of the
\* document alone.
C13_TopLevelShape ==
    /\ KeyOrder(preview.yaml) =
          IF Len(Groups) > 0 THEN <<"log", "lottery", "bit_browser", "redis">>
          ELSE <<"log", "lottery", "redis">>
    /\ KeyOrder(Get(preview.yaml, "log")) = <<"disabled", "level", "type">>
    /\ Get(preview.yaml, "log") =
          Object(<<Entry("disabled", state.log.disabled),
                   Entry("level", state.log.level),
                   Entry("type", state.log.type)>>)
    /\ Get(preview.yaml, "redis") = Object(<<Entry("url", state.redis.url)>>)
    /\ preview = yamlPreview(state)

C13_Witness ==
    /\ ops = 1
    /\ Groups = <<>>
    /\ state.log.disabled
    /\ KeyOrder(preview.yaml) = <<"log", "lottery", "redis">>

-----------------------------------------------------------------------------
(* C14 *)

\* C14: the derived global lottery object always has fan_club with the
\* document's boolean; it has switch_threshold exactly when the threshold
\* is a concrete number, and post_stay, the pair [start, end], exactly when
\* both ends are concrete numbers.
C14_GlobalFieldPresence ==
    /\ HasKey(GlobalLottery, "fan_club")
    /\ Get(GlobalLottery, "fan_club") = state.lottery.fanClub
    /\ HasKey(GlobalLottery, "switch_threshold")
         <=> Concrete(state.lottery.switchThreshold)
    /\ HasKey(GlobalLottery, "switch_threshold")
         => Get(GlobalLottery, "switch_threshold") = state.lottery.switchThreshold
    /\ HasKey(GlobalLottery, "post_stay") <=> ConcreteRange(state.lottery.postStay)
    /\ HasKey(GlobalLottery, "post_stay")
         => Get(GlobalLottery, "post_stay")
               = Array(<<state.lottery.postStay.start, state.lottery.postStay.end>>)

C14_Witness ==
    /\ ops = 1
    /\ state.lottery.postStay = makeRange(Num(5), Text(<<>>))
    /\ ~HasKey(GlobalLottery, "post_stay")
    /\ ~HasKey(GlobalLottery, "switch_threshold")
    /\ Get(GlobalLottery, "fan_club") = FALSE

-----------------------------------------------------------------------------
(* C15 *)

IsPositiveInteger(v) == Concrete(v) /\ ~v.half /\ v.whole > 0

\* C15: a group's derived entry has the key threads only if its thread
\* count is a concrete positive integer, and the value is then that count
\* truncated toward zero; no threads key holds a value of zero or less.
C15_ThreadsOnlyPositive ==
    \A i \in DOMAIN Groups :
        HasKey(GroupEntry(i), "threads")
            => /\ IsPositiveInteger(Groups[i].threads)
               /\ Get(GroupEntry(i), "threads") = Trunc(Groups[i].threads)
               /\ Get(GroupEntry(i), "threads").whole > 0

-----------------------------------------------------------------------------
(* C19 *)

\* C19: every pending highlight request carries a number up to the latest,
\* the latest being for the present preview; a result on display was never
\* asked for after a newer one; and once no request is pending, the HTML on
\* display is the result, or the failure, of the latest request, which is
\* the one for the present preview text.
C19_LatestHighlightWins ==
    /\ \A request \in highlights :
          /\ request.seq <= highlightRequestSeq
          /\ request.seq = highlightRequestSeq => request.code = preview
    /\ highlightedYamlHtml.by <= highlightRequestSeq
    /\ highlights = {}
         => /\ highlightedYamlHtml.by = highlightRequestSeq
            /\ highlightedYamlHtml.code = preview

C19_Witness ==
    /\ highlightRequestSeq = MaxHighlights
    /\ highlights = {}
    /\ highlightedYamlHtml = codeToHtml(MaxHighlights, preview)
    /\ preview = yamlPreview(InitialState)

-----------------------------------------------------------------------------
(* C16 *)

ExportCanceled(r) == r.canceled /\ r.filePath = Absent /\ r.error = Absent
ExportSaved(r) == ~r.canceled /\ r.filePath # Absent /\ r.error = Absent
ExportFailed(r) == ~r.canceled /\ r.filePath = Absent /\ r.error # Absent

\* C16: a request that has returned carries a canceled result, a file path
\* or an error, and nothing else.  Canceled (the dialog was canceled or gave
\* no path) means that no write was attempted; a file path means that the
\* payload's content was written to that path as UTF-8; a request without a
\* text content returns an error, with no dialog opened and no write.
C16_ExportOutcomes ==
    /\ exportCall.pc # "returned" => exportCall.result = Absent
    /\ exportCall.pc = "returned" =>
        LET r == exportCall.result[1]
        IN  /\ ExportCanceled(r) \/ ExportSaved(r) \/ ExportFailed(r)
            /\ ExportCanceled(r)
                 => exportCall.attempts = <<>> /\ exportCall.files = <<>>
            /\ ExportSaved(r)
                 => exportCall.files =
                       <<[path |-> r.filePath[1],
                          content |-> exportCall.payload.content,
                          encoding |-> "utf-8"]>>
            /\ (exportCall.chosen # Absent
                  /\ (exportCall.chosen[1].canceled
                        \/ exportCall.chosen[1].filePath = ""))
                 => ExportCanceled(r) /\ exportCall.attempts = <<>>
            /\ contentMissing(exportCall.payload)
                 => /\ ExportFailed(r)
                    /\ exportCall.dialogs = <<>>
                    /\ exportCall.attempts = <<>>

C16_Witness ==
    /\ exportCall.pc = "returned"
    /\ exportCall.result = Present(ExportResult(FALSE, Present("/out.yaml"), Absent))
    /\ exportCall.files = <<[path |-> "/out.yaml", content |-> Text(<<"x">>),
                             encoding |-> "utf-8"]>>

-----------------------------------------------------------------------------
(* C17 *)

\* C17: in every step that gives the call its result: a result with an
\* error has a null exit code; the result of the timer firing is the
\* timeout error with the output collected until then, and the child is
\* killed; the result of a close is the child's exit code and signal, with
\* no error.
C17_CommandOutcomes ==
    [][(commandCall.result = Absent /\ commandCall'.result # Absent) =>
        LET r == commandCall'.result[1]
        IN  /\ r.error # Absent => r.code = Absent
            /\ (commandCall.timer = "armed" /\ commandCall'.timer = "fired")
                 => /\ r = CommandResult(Absent, Absent, commandCall.stdout,
                                         commandCall.stderr, Present("timeout"))
                    /\ commandCall'.killed
            /\ (~commandCall.closed /\ commandCall'.closed)
                 => r = CommandResult(commandCall'.exit[1].code,
                                      commandCall'.exit[1].signal,
                                      commandCall.stdout, commandCall.stderr,
                                      Absent)]_vars

C17_Witness ==
    /\ commandCall.result =
          Present(CommandResult(Absent, Absent, MaxChunks, 0, Present("timeout")))
    /\ commandCall.timer = "fired"
    /\ commandCall.killed

-----------------------------------------------------------------------------
(* C20 *)

\* C20: resolve is called at most once in a call, with the result the call
\* returns; once the call is settled the timer is no longer armed (it fired,
\* or the close or error that won cleared it).
C20_SettledOnce ==
    /\ Len(commandCall.resolved) <= 1
    /\ commandCall.resolved # <<>>
         => commandCall.result = Present(commandCall.resolved[1])
    /\ commandCall.settled <=> commandCall.resolved # <<>>
    /\ commandCall.settled => commandCall.timer # "armed"

C20_Witness ==
    /\ commandCall.timer = "fired"
    /\ commandCall.killed
    /\ commandCall.closed
    /\ commandCall.errored
    /\ Len(commandCall.resolved) = 1
    /\ commandCall.resolved[1].error = Present("timeout")

-----------------------------------------------------------------------------
(* C18 *)

\* C18: provided every call of exportYaml settles, a raised isExporting is
\* eventually lowered again; and the step in which a call settles, whatever
\* its outcome, lowers the flag and leaves the document, its preview and
\* the error list as they were, so that the export button is as available
\* as before the export.
C18_ExportRecovers ==
    /\ isExporting ~> ~isExporting
    /\ [][\A k \in DOMAIN exports :
            (exports[k].pc = "saving" /\ exports'[k].pc = "done")
                => /\ ~isExporting'
                   /\ state' = state
                   /\ preview' = preview
                   /\ formErrors' = formErrors]_vars

C18_Witness ==
    /\ Len(exports) = 2
    /\ exports[1].pc = "done"
    /\ exports[1].called
    /\ exports[1].notice = NoticeSaveThrew
    /\ exports[2].pc = "saving"
    /\ isExporting
    /\ ops = 1

-----------------------------------------------------------------------------
(* C21 *)

\* The derived global lottery object holds every required field.
RequiredGlobalsDerived ==
    /\ HasKey(GlobalLottery, "conditions")
    /\ HasKey(Get(GlobalLottery, "conditions"), "countdown_range")
    /\ HasKey(Get(GlobalLottery, "conditions"), "max_viewers")
    /\ HasKey(Get(GlobalLottery, "conditions"), "min_probability")
    /\ HasKey(GlobalLottery, "post_stay")

\* C21: when the whole form validates without an error, the derived tree
\* holds conditions.countdown_range, conditions.max_viewers,
\* conditions.min_probability and post_stay of the global section and
\* threads of every group.
C21_ValidatedFieldsDerived ==
    (validated /\ formErrors = <<>>) =>
        /\ RequiredGlobalsDerived
        /\ \A i \in DOMAIN Groups : HasKey(GroupEntry(i), "threads")

-----------------------------------------------------------------------------
(* C22 *)

\* C22: whenever the copy action changes the clipboard, the document whose
\* serialization it places there passes the validation of the whole form.
C22_CopiedDocumentIsValid ==
    [][clipboard' # clipboard => schema(state).issues = <<>>]_vars

-----------------------------------------------------------------------------
(* C23 *)

\* No object of a group is an object of another group, and within a group
\* the four objects are four different ones.
NoSharing ==
    \A i, j \in DOMAIN Groups : \A k, l \in ObjectKinds :
        state.objects[i][k] = state.objects[j][l] => i = j /\ k = l

\* What duplicating group i leaves in place: one more group; the groups up
\* to i stay where they are and the groups after i move one place on, none
\* of them changed; the group at i + 1 has an empty identifier and otherwise
\* the fields of group i; the sections that are not groups are as before.
DuplicateFrame(i) ==
    /\ Len(Groups') = Len(Groups) + 1
    /\ \A j \in 1..i : Groups'[j] = Groups[j]
    /\ \A j \in (i + 1)..Len(Groups) : Groups'[j + 1] = Groups[j]
    /\ Groups'[i + 1].id = ""
    /\ Groups'[i + 1].threads = Groups[i].threads
    /\ Groups'[i + 1].inherit = Groups[i].inherit
    /\ Groups'[i + 1].lottery = Groups[i].lottery
    /\ state'.log = state.log
    /\ state'.lottery = state.lottery
    /\ state'.redis = state.redis

\* An edit of group i leaves every other group as it was.
OthersUnchanged(i) ==
    /\ Len(Groups') = Len(Groups)
    /\ \A j \in DOMAIN Groups : j # i => Groups'[j] = Groups[j]

\* C23: duplicateGroup(i) inserts exactly one group, at position i + 1, with
\* the thread count, the inheritance flag and every override of group i and
\* an empty identifier, and changes no other group, their order or any
\* section that is not a group; no group ever shares a record with another,
\* so an edit of a range or override field of one group, the copy or its
\* original included, leaves every other group unchanged.
C23_DuplicateIsDeepAndFramed ==
    /\ []NoSharing
    /\ [][\A i \in 1..MaxGroups : duplicateGroup(i) => DuplicateFrame(i)]_vars
    /\ [][\A i \in 1..MaxGroups :
            /\ \A name \in GroupEditFields, v \in GroupEditValues :
                  EditGroupNumber(i, name, v) => OthersUnchanged(i)
            /\ \A selector \in GroupEditSelectors :
                  EditGroupFanClub(i, selector) => OthersUnchanged(i)]_vars

\* C23 witness: the second group of the initial document (switch threshold
\* 800) was duplicated and the copy's switch threshold was then set to 7;
\* the original still has 800.
C23_Witness ==
    /\ ops = 2
    /\ Len(Groups) = 3
    /\ Groups[1] = InitialState.bitBrowser.groups[1]
    /\ Groups[2] = InitialState.bitBrowser.groups[2]
    /\ Groups[3] = [Groups[2] EXCEPT !.id = "", !.lottery.switchThreshold = Num(7)]

====
